---- MODULE Spec2Model ----
(***************************************************************************)
(* The Accrual Computation Engine of report_objects/report_builder.py and  *)
(* report_objects/report_manager.py: one run of build_accruals_report over *)
(* a base report (a table of claim rows) and a PA-to-claims factor table.  *)
(*                                                                         *)
(* Values.  A cell of a table is a record [ty, s, n]: ty is the runtime    *)
(* type of the Python object ("str", "float", "int", "date"), s the text   *)
(* of a str as a sequence of characters, n the number.  A float n stands   *)
(* for n/100 (two decimals), so 0.5 is Float(50) and 12.34 is Float(1234); *)
(* an int n is the whole number n.  A date is held as y*10000 + m*100 + d. *)
(* The result of a step that raises is a record whose ty is the name of    *)
(* the exception.                                                          *)
(***************************************************************************)
EXTENDS Integers, Sequences, FiniteSets, TLC

Str(chars) == [ty |-> "str", s |-> chars, n |-> 0]
Float(hundredths) == [ty |-> "float", s |-> <<>>, n |-> hundredths]
NaN == [ty |-> "float", s |-> <<"n", "a", "n">>, n |-> 0]
IntVal(k) == [ty |-> "int", s |-> <<>>, n |-> k]
Date(y, m, d) == [ty |-> "date", s |-> <<>>, n |-> y * 10000 + m * 100 + d]
Raise(kind) == [ty |-> kind, s |-> <<>>, n |-> 0]

ErrorKinds ==
    {"ImproperArgumentError", "ActivityNotFoundError", "ColumnSubsetError",
     "KeyError", "IndexError", "TypeError", "AttributeError", "ZeroDivisionError"}

IsError(v) == v.ty \in ErrorKinds
IsNaN(v) == v.ty = "float" /\ v.s # <<>>
IsNumber(v) == v.ty \in {"float", "int"} /\ ~IsNaN(v)

(***************************************************************************)
(* Text: str.upper(), str.replace(" ", ""), the `in` test on two strs.     *)
(***************************************************************************)
LowerCase ==
    <<"a", "b", "c", "d", "e", "f", "g", "h", "i", "j", "k", "l", "m",
      "n", "o", "p", "q", "r", "s", "t", "u", "v", "w", "x", "y", "z">>
UpperCase ==
    <<"A", "B", "C", "D", "E", "F", "G", "H", "I", "J", "K", "L", "M",
      "N", "O", "P", "Q", "R", "S", "T", "U", "V", "W", "X", "Y", "Z">>

upper_char(c) ==
    IF \E i \in 1..Len(LowerCase) : LowerCase[i] = c
    THEN UpperCase[CHOOSE i \in 1..Len(LowerCase) : LowerCase[i] = c]
    ELSE c

upper(chars) == [i \in 1..Len(chars) |-> upper_char(chars[i])]

IsNotSpace(c) == c # " "
strip_spaces(chars) == SelectSeq(chars, IsNotSpace)

\* value.replace(" ", "").upper()
normalize(chars) == upper(strip_spaces(chars))

\* sub in chars
contains(sub, chars) ==
    \E i \in 1..(Len(chars) - Len(sub) + 1) : SubSeq(chars, i, i + Len(sub) - 1) = sub

ends_with(chars, suffix) ==
    /\ Len(chars) >= Len(suffix)
    /\ SubSeq(chars, Len(chars) - Len(suffix) + 1, Len(chars)) = suffix

(***************************************************************************)
(* Numbers: round(x, 2) of a quotient num/den of hundredths, to the        *)
(* nearest hundredth, ties to the even hundredth.                          *)
(***************************************************************************)
round_div_pos(num, den) ==
    LET q == num \div den
        r == num % den
    IN  IF 2 * r < den THEN q
        ELSE IF 2 * r > den THEN q + 1
        ELSE IF q % 2 = 0 THEN q ELSE q + 1

round_div(num, den) ==
    IF den > 0 THEN round_div_pos(num, den) ELSE round_div_pos(0 - num, 0 - den)

(***************************************************************************)
(* Calendar: datetime.date and calendar.monthrange.                        *)
(***************************************************************************)
year_of(date) == date.n \div 10000
month_of(date) == (date.n \div 100) % 100
day_of(date) == date.n % 100

is_leap(y) == (y % 4 = 0) /\ ((y % 100 # 0) \/ (y % 400 = 0))

days_in_month(y, m) ==
    IF m = 2 THEN (IF is_leap(y) THEN 29 ELSE 28)
    ELSE IF m \in {4, 6, 9, 11} THEN 30 ELSE 31

RECURSIVE days_before_month(_, _)
days_before_month(y, m) ==
    IF m <= 1 THEN 0 ELSE days_before_month(y, m - 1) + days_in_month(y, m - 1)

days_before_year(y) ==
    LET p == y - 1 IN p * 365 + (p \div 4) - (p \div 100) + (p \div 400)

toordinal(date) ==
    days_before_year(year_of(date)) + days_before_month(year_of(date), month_of(date))
        + day_of(date)

(***************************************************************************)
(* The texts of the model, character by character.                         *)
(***************************************************************************)
\* the str literals of report_builder.py and report_manager.py
Lit ==
    [empty |-> <<>>,
     NA_text |-> <<"N", "/", "A">>,
     Paid |-> <<"P", "a", "i", "d">>,
     Credit_Memo_Issued |-> <<"C", "r", "e", "d", "i", "t", " ", "M", "e", "m", "o", " ", "I", "s", "s", "u", "e", "d">>,
     PAID |-> <<"P", "A", "I", "D">>,
     CREDITMEMOISSUED |-> <<"C", "R", "E", "D", "I", "T", "M", "E", "M", "O", "I", "S", "S", "U", "E", "D">>,
     SETTLEDTHROUGHCREDITMEMO |-> <<"S", "E", "T", "T", "L", "E", "D", "T", "H", "R", "O", "U", "G", "H", "C", "R", "E", "D", "I", "T", "M", "E", "M", "O">>,
     CLAIMCANCELLED |-> <<"C", "L", "A", "I", "M", "C", "A", "N", "C", "E", "L", "L", "E", "D">>,
     PROCESSEDBUTNOTYETDUE |-> <<"P", "R", "O", "C", "E", "S", "S", "E", "D", "B", "U", "T", "N", "O", "T", "Y", "E", "T", "D", "U", "E">>,
     YES |-> <<"Y", "E", "S">>,
     NO |-> <<"N", "O">>,
     HOLD |-> <<"H", "O", "L", "D">>,
     REVISE_RESUBMIT |-> <<"R", "E", "V", "I", "S", "E", "/", "R", "E", "S", "U", "B", "M", "I", "T">>,
     SUBMITTED |-> <<"S", "U", "B", "M", "I", "T", "T", "E", "D">>,
     PENDINGPAYMENT |-> <<"P", "E", "N", "D", "I", "N", "G", "P", "A", "Y", "M", "E", "N", "T">>,
     PAYMENTPROCESSING |-> <<"P", "A", "Y", "M", "E", "N", "T", "P", "R", "O", "C", "E", "S", "S", "I", "N", "G">>,
     Pending_Payment |-> <<"P", "e", "n", "d", "i", "n", "g", " ", "P", "a", "y", "m", "e", "n", "t">>,
     APPROVED |-> <<"A", "P", "P", "R", "O", "V", "E", "D">>,
     PENDINGAPPROVAL |-> <<"P", "E", "N", "D", "I", "N", "G", "A", "P", "P", "R", "O", "V", "A", "L">>,
     CLOSED |-> <<"C", "L", "O", "S", "E", "D">>,
     ALLIANCECOOP |-> <<"A", "L", "L", "I", "A", "N", "C", "E", "C", "O", "O", "P">>,
     SALESEXPENSE |-> <<"S", "A", "L", "E", "S", "E", "X", "P", "E", "N", "S", "E">>,
     CGI |-> <<"C", "G", "I">>,
     CY24 |-> <<"C", "Y", "2", "4">>,
     CY25 |-> <<"C", "Y", "2", "5">>,
     c353 |-> <<"3", "5", "3">>,
     c489 |-> <<"4", "8", "9">>,
     c479 |-> <<"4", "7", "9">>,
     c00 |-> <<"0", "0">>,
     c31 |-> <<"3", "1">>,
     c41 |-> <<"4", "1">>,
     c262555 |-> <<"2", "6", "2", "5", "5", "5">>,
     OEM |-> <<"O", "E", "M">>,
     APAC |-> <<"A", "P", "A", "C">>,
     EMEA |-> <<"E", "M", "E", "A">>,
     LATAM |-> <<"L", "A", "T", "A", "M">>,
     NA |-> <<"N", "A">>,
     DEFAULT |-> <<"D", "E", "F", "A", "U", "L", "T">>,
     Activity |-> <<"A", "c", "t", "i", "v", "i", "t", "y">>,
     c000 |-> <<"0", "0", "0">>,
     Wipro_Ltd |-> <<"W", "i", "p", "r", "o">>,
     dotS |-> <<".", "S">>,
     MULTIPLE |-> <<"M", "U", "L", "T", "I", "P", "L", "E">>,
     NOCLAIM |-> <<"N", "O", "C", "L", "A", "I", "M">>,
     YES_SUMMARY |-> <<"Y", "E", "S", "-", "S", "U", "M", "M", "A", "R", "Y">>,
     YES_CLOSED |-> <<"Y", "E", "S", "-", "C", "L", "O", "S", "E", "D">>,
     YES_REPEATED |-> <<"Y", "E", "S", "-", "R", "E", "P", "E", "A", "T", "E", "D">>]

\* the texts of the tables of mdf_accruals.constants
TableText ==
    [ROW |-> <<"R", "O", "W">>,
     ACCENTURE |-> <<"A", "C", "C", "E", "N", "T", "U", "R", "E">>,
     ODINE |-> <<"O", "D", "I", "N", "E">>,
     BRL |-> <<"B", "R", "L">>,
     EVENTSPONSORSHIP |-> <<"E", "V", "E", "N", "T", "S", "P", "O", "N", "S", "O", "R", "S", "H", "I", "P">>,
     c110 |-> <<"1", "1", "0">>,
     c120 |-> <<"1", "2", "0">>,
     c130 |-> <<"1", "3", "0">>,
     c140 |-> <<"1", "4", "0">>,
     c150 |-> <<"1", "5", "0">>,
     c160 |-> <<"1", "6", "0">>,
     c0000 |-> <<"0", "0", "0", "0">>,
     c1111 |-> <<"1", "1", "1", "1">>,
     c2222 |-> <<"2", "2", "2", "2">>,
     WIPRO |-> <<"W", "I", "P", "R", "O">>,
     CN |-> <<"C", "N">>,
     USD |-> <<"U", "S", "D">>]

\* the texts held by the fields of the base reports
FieldText ==
    [Open |-> <<"O", "p", "e", "n">>,
     EXPIRED |-> <<"E", "X", "P", "I", "R", "E", "D">>,
     MDF |-> <<"M", "D", "F">>,
     COGS |-> <<"C", "O", "G", "S">>,
     MDF_Fund |-> <<"M", "D", "F", " ", "F", "Y">>,
     c100 |-> <<"1", "0", "0">>,
     Reseller |-> <<"V", "A", "R">>,
     Event |-> <<"E", "v", "e", "n", "t">>,
     Webinar |-> <<"W", "e", "b", "i", "n", "a", "r">>,
     C1_S |-> <<"C", ".", "S", "1">>,
     ACME |-> <<"A", "c", "m", "e">>,
     US |-> <<"U", "S">>,
     CNY |-> <<"C", "N", "Y">>,
     dash |-> <<"-">>,
     P1 |-> <<"P", "1">>,
     P2 |-> <<"P", "2">>,
     C1 |-> <<"C", "1">>,
     C2 |-> <<"C", "2">>,
     C3 |-> <<"C", "3">>,
     cgi_cy24_CY25 |-> <<"c", "g", "i", " ", "c", "y", "2", "4", " ", "C", "Y", "2", "5">>,
     CGI_cy_25 |-> <<"C", "G", "I", " ", "c", "y", " ", "2", "5">>,
     CGI_fund |-> <<"C", "G", "I", " ", "f", "u", "n", "d">>,
     Sales_Expense |-> <<"S", "a", "l", "e", "s", " ", "E", "x", "p", "e", "n", "s", "e">>,
     Alliance_Coop |-> <<"A", "l", "l", "i", "a", "n", "c", "e", " ", "C", "o", "o", "p">>,
     Settled_Through_Credit_Memo |-> <<"S", "e", "t", "t", "l", "e", "d", " ", "T", "h", "r", "o", "u", "g", "h", " ", "C", "r", "e", "d", "i", "t", " ", "M", "e", "m", "o">>,
     claim_cancelled |-> <<"c", "l", "a", "i", "m", " ", "c", "a", "n", "c", "e", "l", "l", "e", "d">>,
     Processed_But_Not_Yet_Due |-> <<"P", "r", "o", "c", "e", "s", "s", "e", "d", " ", "B", "u", "t", " ", "N", "o", "t", " ", "Y", "e", "t", " ", "D", "u", "e">>,
     Paid_Out |-> <<"P", "a", "i", "d", " ", "O", "u", "t">>]

(***************************************************************************)
(* Type checks.  isinstance(value, type), and the check written as         *)
(*     for parameter, type in {value: type, ...}.items()                   *)
(* whose dict is keyed by the VALUES: two equal values make one key, which *)
(* keeps the first value and the last type.                                *)
(***************************************************************************)
isinstance(v, type) == v.ty = type

hundredths_of(v) == IF v.ty = "int" THEN v.n * 100 ELSE v.n

\* Python's == between two cells (a NaN equals nothing, 1 == 1.0)
py_eq(a, b) ==
    \/ a.ty = "str" /\ b.ty = "str" /\ a.s = b.s
    \/ IsNumber(a) /\ IsNumber(b) /\ hundredths_of(a) = hundredths_of(b)
    \/ a.ty = "date" /\ b.ty = "date" /\ a.n = b.n

\* pairs: a sequence of <<value, type>>, in the order the dict literal lists them
dict_type_check(pairs) ==
    \A i \in 1..Len(pairs) :
        (\A h \in 1..(i - 1) : ~py_eq(pairs[h][1], pairs[i][1]))
            => LET last == CHOOSE j \in i..Len(pairs) :
                               /\ j = i \/ py_eq(pairs[j][1], pairs[i][1])
                               /\ \A k \in (j + 1)..Len(pairs) : ~py_eq(pairs[k][1], pairs[i][1])
               IN  isinstance(pairs[i][1], pairs[last][2])

(***************************************************************************)
(* Field Derivation Pipeline: the private helpers of ReportBuilder.        *)
(***************************************************************************)
\* a helper that answers "N/A" for whatever is not a str
get_settlement_status_default(status) ==
    IF ~isinstance(status, "str") THEN Str(Lit.NA_text) ELSE status

get_settlement_status(status) ==
    IF isinstance(status, "float") THEN Str(Lit.NA_text)
    ELSE IF ~isinstance(status, "str") THEN Raise("ImproperArgumentError")
    ELSE status

\* the helper with the check of the types ahead of the check for a float
calculate_cost_center_types_first(cost_center, accounting_category, program, approval_budget_fund) ==
    IF \E parameter \in {accounting_category, approval_budget_fund, program, cost_center} :
           ~isinstance(parameter, "str")
    THEN Raise("ImproperArgumentError")
    ELSE LET category == normalize(accounting_category.s)
             prog == normalize(program.s)
             fund == normalize(approval_budget_fund.s)
         IN  IF contains(Lit.CGI, fund) /\ contains(Lit.CY24, fund) THEN Str(Lit.c353)
             ELSE IF contains(Lit.CGI, fund) /\ contains(Lit.CY25, fund) THEN Str(Lit.c489)
             ELSE IF category = Lit.SALESEXPENSE /\ prog = Lit.ALLIANCECOOP THEN Str(Lit.c479)
             ELSE cost_center

calculate_cost_center(cost_center, accounting_category, program, approval_budget_fund) ==
    IF isinstance(accounting_category, "float") \/ isinstance(cost_center, "float")
    THEN Raise("ActivityNotFoundError")
    ELSE IF \E parameter \in {accounting_category, approval_budget_fund, program, cost_center} :
                ~isinstance(parameter, "str")
    THEN Raise("ImproperArgumentError")
    ELSE LET category == normalize(accounting_category.s)
             prog == normalize(program.s)
             fund == normalize(approval_budget_fund.s)
         IN  IF contains(Lit.CGI, fund) /\ contains(Lit.CY24, fund) THEN Str(Lit.c353)
             ELSE IF contains(Lit.CGI, fund) /\ contains(Lit.CY25, fund) THEN Str(Lit.c489)
             ELSE IF category = Lit.SALESEXPENSE /\ prog = Lit.ALLIANCECOOP THEN Str(Lit.c479)
             ELSE cost_center

calculate_sales_channel(region, dr_account, partner_type) ==
    IF isinstance(dr_account, "float") THEN Str(Lit.c00)
    ELSE IF \E parameter \in {region, dr_account, partner_type} : ~isinstance(parameter, "str")
    THEN Raise("ImproperArgumentError")
    ELSE IF normalize(region.s) = Lit.APAC /\ normalize(dr_account.s) = Lit.c262555
    THEN (IF contains(Lit.OEM, normalize(partner_type.s)) THEN Str(Lit.c31) ELSE Str(Lit.c41))
    ELSE Str(Lit.c00)

\* PROJECT_CODE_MAP of mdf_accruals.constants: <<key, code>> in the order of the
\* dict, its last key the sentinel DEFAULT
PROJECT_CODE_MAP ==
    << <<TableText.WIPRO, TableText.c1111>>, <<Lit.CGI, TableText.c2222>>, <<Lit.DEFAULT, TableText.c0000>> >>

project_code_of(key) ==
    (CHOOSE e \in {PROJECT_CODE_MAP[i] : i \in 1..Len(PROJECT_CODE_MAP)} : e[1] = key)[2]

calculate_project_code(approval_budget_name, program, partner) ==
    IF \E parameter \in {approval_budget_name, program, partner} : ~isinstance(parameter, "str")
    THEN Raise("ImproperArgumentError")
    ELSE LET partner_upper == upper(partner.s)
             name == normalize(approval_budget_name.s)
             prog == normalize(program.s)
             alliance_partners == SubSeq(PROJECT_CODE_MAP, 1, Len(PROJECT_CODE_MAP) - 1)
             matches == {i \in 1..Len(alliance_partners) :
                            contains(alliance_partners[i][1], partner_upper)}
         IN  IF contains(Lit.CGI, name) THEN Str(project_code_of(Lit.CGI))
             ELSE IF prog = Lit.ALLIANCECOOP /\ matches # {}
             THEN Str(alliance_partners[CHOOSE i \in matches : \A j \in matches : i <= j][2])
             ELSE Str(project_code_of(Lit.DEFAULT))

\* the day count without the end day
calculate_days_to_accrue_exclusive(activity_start_date, activity_end_date) ==
    IF ~isinstance(activity_start_date, "date") \/ ~isinstance(activity_end_date, "date")
    THEN Raise("ImproperArgumentError")
    ELSE IntVal(toordinal(activity_end_date) - toordinal(activity_start_date))

calculate_days_to_accrue(activity_start_date, activity_end_date) ==
    IF ~isinstance(activity_start_date, "date") \/ ~isinstance(activity_end_date, "date")
    THEN Raise("ImproperArgumentError")
    ELSE IntVal(toordinal(activity_end_date) - toordinal(activity_start_date) + 1)

PROCESSED_STATUSES ==
    {Lit.PAID, Lit.CREDITMEMOISSUED, Lit.SETTLEDTHROUGHCREDITMEMO, Lit.CLAIMCANCELLED,
     Lit.PROCESSEDBUTNOTYETDUE}

\* the helper with a status that holds one of the texts taken as processed
is_processed_containing(settlement_status) ==
    IF ~isinstance(settlement_status, "str") THEN Raise("ImproperArgumentError")
    ELSE IF \E text \in PROCESSED_STATUSES : contains(text, normalize(settlement_status.s))
    THEN Str(Lit.YES)
    ELSE Str(Lit.NO)

is_processed(settlement_status) ==
    IF ~isinstance(settlement_status, "str") THEN Raise("ImproperArgumentError")
    ELSE IF normalize(settlement_status.s) \in PROCESSED_STATUSES THEN Str(Lit.YES)
    ELSE Str(Lit.NO)

\* the payment amount whatever the flag
get_processed_amount_unflagged(processed_in_oracle, convert_to_partner_currency) ==
    IF ~dict_type_check(<< <<processed_in_oracle, "str">>,
                           <<convert_to_partner_currency, "float">> >>)
    THEN Raise("ImproperArgumentError")
    ELSE convert_to_partner_currency

get_processed_amount(processed_in_oracle, convert_to_partner_currency) ==
    IF ~dict_type_check(<< <<processed_in_oracle, "str">>,
                           <<convert_to_partner_currency, "float">> >>)
    THEN Raise("ImproperArgumentError")
    ELSE IF processed_in_oracle = Str(Lit.YES) THEN convert_to_partner_currency
    ELSE Float(0)

(***************************************************************************)
(* The PA-to-claims factor table: a sequence of rows [Activity, factor],   *)
(* factor a function from the region columns to the factor of the row.     *)
(***************************************************************************)
FACTOR_REGION_COLUMNS == {Lit.APAC, Lit.EMEA, Lit.LATAM, Lit.NA}

\* factors = pa_to_claim_factors[pa_to_claim_factors["Activity"] == activity]
factor_rows(activity, pa_to_claim_factors) ==
    SelectSeq(pa_to_claim_factors, LAMBDA r : py_eq(r.Activity, activity))

\* factors[region] of the table's columns Activity, APAC, EMEA, LATAM, NA
factor_cell(factor_row, region) ==
    IF region.s = Lit.Activity THEN factor_row.Activity ELSE factor_row.factor[region.s]

in_factor_columns(region) ==
    isinstance(region, "str") /\ region.s \in FACTOR_REGION_COLUMNS \cup {Lit.Activity}

\* factor = list(factors[region])[0]
lookup_factor(activity, region, pa_to_claim_factors) ==
    LET factors == factor_rows(activity, pa_to_claim_factors)
    IN  IF ~in_factor_columns(region) THEN Raise("KeyError")
        ELSE IF Len(factors) = 0 THEN Raise("IndexError")
        ELSE factor_cell(factors[1], region)

PA_ACCRUAL_STATUSES == {Lit.HOLD, Lit.REVISE_RESUBMIT, Lit.SUBMITTED, Lit.empty}

\* round(approved_pa_local_currency * factor, 2)
round_product(a, b) ==
    IF ~isinstance(b, "float") THEN Raise("TypeError")
    ELSE IF IsNaN(a) \/ IsNaN(b) THEN NaN ELSE Float(round_div(a.n * b.n, 100))

\* the pair without the test of the processed flag
get_total_pa_accrual_any_flag(activity, claim_status, region, processed_in_oracle, approved_pa_local_currency, pa_to_claim_factors) ==
    IF ~dict_type_check(<< <<activity, "str">>, <<claim_status, "str">>, <<region, "str">>,
                           <<processed_in_oracle, "str">>,
                           <<approved_pa_local_currency, "float">> >>)
    THEN <<Raise("ImproperArgumentError"), Raise("ImproperArgumentError")>>
    ELSE IF ~isinstance(claim_status, "str")
    THEN <<Raise("AttributeError"), Raise("AttributeError")>>
    ELSE LET status == normalize(claim_status.s)
             factor == lookup_factor(activity, region, pa_to_claim_factors)
         IN  IF IsError(factor) THEN <<factor, factor>>
             ELSE IF status \in PA_ACCRUAL_STATUSES
             THEN <<round_product(approved_pa_local_currency, factor), factor>>
             ELSE <<Float(0), Str(Lit.empty)>>

\* the pair with the factor looked up only where it is used
get_total_pa_accrual_lazy_lookup(activity, claim_status, region, processed_in_oracle, approved_pa_local_currency, pa_to_claim_factors) ==
    IF ~dict_type_check(<< <<activity, "str">>, <<claim_status, "str">>, <<region, "str">>,
                           <<processed_in_oracle, "str">>,
                           <<approved_pa_local_currency, "float">> >>)
    THEN <<Raise("ImproperArgumentError"), Raise("ImproperArgumentError")>>
    ELSE IF ~isinstance(claim_status, "str")
    THEN <<Raise("AttributeError"), Raise("AttributeError")>>
    ELSE LET status == normalize(claim_status.s)
             factor == lookup_factor(activity, region, pa_to_claim_factors)
         IN  IF status \in PA_ACCRUAL_STATUSES /\ processed_in_oracle # Str(Lit.YES)
             THEN (IF IsError(factor) THEN <<factor, factor>>
                   ELSE <<round_product(approved_pa_local_currency, factor), factor>>)
             ELSE <<Float(0), Str(Lit.empty)>>

\* the pair (total_pa_accrual, reduction_factor), or the error raised
get_total_pa_accrual(activity, claim_status, region, processed_in_oracle, approved_pa_local_currency, pa_to_claim_factors) ==
    IF ~dict_type_check(<< <<activity, "str">>, <<claim_status, "str">>, <<region, "str">>,
                           <<processed_in_oracle, "str">>,
                           <<approved_pa_local_currency, "float">> >>)
    THEN <<Raise("ImproperArgumentError"), Raise("ImproperArgumentError")>>
    ELSE IF ~isinstance(claim_status, "str")
    THEN <<Raise("AttributeError"), Raise("AttributeError")>>
    ELSE LET status == normalize(claim_status.s)
             factor == lookup_factor(activity, region, pa_to_claim_factors)
         IN  IF IsError(factor) THEN <<factor, factor>>
             ELSE IF status \in PA_ACCRUAL_STATUSES
             THEN (IF processed_in_oracle = Str(Lit.YES) THEN <<Float(0), Str(Lit.empty)>>
                   ELSE IF IsError(round_product(approved_pa_local_currency, factor))
                   THEN <<Raise("TypeError"), Raise("TypeError")>>
                   ELSE <<round_product(approved_pa_local_currency, factor), factor>>)
             ELSE <<Float(0), Str(Lit.empty)>>

UNPROCESSED_ACCRUAL_STATUSES == {Lit.PENDINGPAYMENT, Lit.PAYMENTPROCESSING, Lit.PAID}

\* the claim amount of every unprocessed row, whatever its Claim Status
get_total_unprocessed_accrual_any_status(claim_status, processed_in_oracle, claim_approved_amount_local) ==
    IF ~dict_type_check(<< <<claim_status, "str">>, <<processed_in_oracle, "str">>,
                           <<claim_approved_amount_local, "float">> >>)
    THEN Raise("ImproperArgumentError")
    ELSE IF processed_in_oracle = Str(Lit.YES) THEN Float(0)
    ELSE claim_approved_amount_local

get_total_unprocessed_accrual(claim_status, processed_in_oracle, claim_approved_amount_local) ==
    IF ~dict_type_check(<< <<claim_status, "str">>, <<processed_in_oracle, "str">>,
                           <<claim_approved_amount_local, "float">> >>)
    THEN Raise("ImproperArgumentError")
    ELSE IF ~isinstance(claim_status, "str") THEN Raise("AttributeError")
    ELSE IF normalize(claim_status.s) \in UNPROCESSED_ACCRUAL_STATUSES
    THEN (IF processed_in_oracle = Str(Lit.YES) THEN Float(0) ELSE claim_approved_amount_local)
    ELSE Float(0)

\* round(accrual_amount / days_to_accrue, 2) outside a try
divide_unguarded(accrual_amount, days_to_accrue) ==
    IF days_to_accrue.n = 0 THEN Raise("ZeroDivisionError")
    ELSE IF IsNaN(accrual_amount) THEN NaN
    ELSE Float(round_div(accrual_amount.n, days_to_accrue.n))

\* round(accrual_amount / days_to_accrue, 2), ZeroDivisionError caught
divide_or_zero(accrual_amount, days_to_accrue) ==
    IF days_to_accrue.n = 0 THEN Float(0)
    ELSE IF IsNaN(accrual_amount) THEN NaN
    ELSE Float(round_div(accrual_amount.n, days_to_accrue.n))

calculate_daily_accrual_rates(accrual_amount, days_to_accrue) ==
    IF ~isinstance(accrual_amount, "float") /\ ~isinstance(accrual_amount, "str")
    THEN Raise("ImproperArgumentError")
    ELSE IF ~isinstance(days_to_accrue, "int") THEN Raise("ImproperArgumentError")
    ELSE IF IsNumber(accrual_amount) /\ accrual_amount.n = 0 THEN accrual_amount
    ELSE IF isinstance(accrual_amount, "str") THEN Raise("TypeError")
    ELSE divide_or_zero(accrual_amount, days_to_accrue)

(***************************************************************************)
(* Tables.  A row is a function from column names to cells; a table is a   *)
(* sequence of rows (position = the 0-based row index + 1).                *)
(***************************************************************************)
set_col(row, column, value) == (column :> value) @@ row

\* the first position whose value raised, 0 when none did
first_error(values) ==
    IF \E i \in 1..Len(values) : IsError(values[i])
    THEN CHOOSE i \in 1..Len(values) :
             IsError(values[i]) /\ \A j \in 1..(i - 1) : ~IsError(values[j])
    ELSE 0

\* accruals_report[column] = values
assign_column(report, column, values) ==
    [i \in 1..Len(report) |-> set_col(report[i], column, values[i])]

(***************************************************************************)
(* Edge-Case Override Engine.  TRANSFORMATION_MAP is a constant of         *)
(* mdf_accruals.constants: per set, the rules in dict order, each a key    *)
(* and the columns it writes.                                              *)
(***************************************************************************)
\* a map with a second Latam rule, keyed on the Region the first rule writes
TRANSFORMATION_MAP_chained ==
    [China |-> << [key |-> <<TableText.CN, TableText.USD>>, value |-> Str(TableText.c110)] >>,
     Wipro |-> << [key |-> TableText.WIPRO,
                   sets |-> << <<"Company Code", Str(TableText.c120)>>,
                               <<"Project Code", Str(TableText.c1111)>> >>] >>,
     Accenture |-> << [key |-> TableText.ACCENTURE,
                       sets |-> << <<"Company Code", Str(TableText.c130)>> >>] >>,
     Odine |-> << [key |-> <<TableText.ODINE, Lit.CY25>>,
                   sets |-> << <<"Cost Center", Str(TableText.c140)>> >>] >>,
     Latam |-> << [key |-> <<Lit.LATAM, TableText.BRL>>,
                   sets |-> << <<"Company Code", Str(TableText.c150)>>,
                               <<"Region", Str(TableText.ROW)>> >>],
                  [key |-> <<TableText.ROW, TableText.BRL>>,
                   sets |-> << <<"Company Code", Str(TableText.c110)>> >>] >>,
     Nokia |-> << [key |-> <<Lit.APAC, TableText.EVENTSPONSORSHIP>>,
                   sets |-> << <<"Cost Center", Str(TableText.c160)>> >>] >>]

\* the map of the constants module
TRANSFORMATION_MAP ==
    [China |-> << [key |-> <<TableText.CN, TableText.USD>>, value |-> Str(TableText.c110)] >>,
     Wipro |-> << [key |-> TableText.WIPRO,
                   sets |-> << <<"Company Code", Str(TableText.c120)>>,
                               <<"Project Code", Str(TableText.c1111)>> >>] >>,
     Accenture |-> << [key |-> TableText.ACCENTURE,
                       sets |-> << <<"Company Code", Str(TableText.c130)>> >>] >>,
     Odine |-> << [key |-> <<TableText.ODINE, Lit.CY25>>,
                   sets |-> << <<"Cost Center", Str(TableText.c140)>> >>] >>,
     Latam |-> << [key |-> <<Lit.LATAM, TableText.BRL>>,
                   sets |-> << <<"Company Code", Str(TableText.c150)>>,
                               <<"Region", Str(TableText.ROW)>> >>] >>,
     Nokia |-> << [key |-> <<Lit.APAC, TableText.EVENTSPONSORSHIP>>,
                   sets |-> << <<"Cost Center", Str(TableText.c160)>> >>] >>]

\* for column, value in transformation.items(): if column in row: row[column] = value
RECURSIVE write_columns(_, _)
write_columns(row, sets) ==
    IF Len(sets) = 0 THEN row
    ELSE write_columns(
             IF sets[1][1] \in DOMAIN row THEN set_col(row, sets[1][1], sets[1][2]) ELSE row,
             Tail(sets))

\* every rule of the set applied, matching or not
RECURSIVE apply_rules_unmatched(_, _, _)
apply_rules_unmatched(row, rules, matching) ==
    IF Len(rules) = 0 THEN row
    ELSE apply_rules_unmatched(write_columns(row, rules[1].sets), Tail(rules), matching)

\* the rules of a set are tried in dict order and every matching rule is applied
RECURSIVE apply_rules(_, _, _)
apply_rules(row, rules, matching) ==
    IF Len(rules) = 0 THEN row
    ELSE apply_rules(
             IF rules[1] \in matching THEN write_columns(row, rules[1].sets) ELSE row,
             Tail(rules), matching)

Range(seq) == {seq[i] : i \in 1..Len(seq)}

\* a row method that raised returns, in place of the row, the exception
raised_row(kind) == ("raise" :> Raise(kind))
IsRaisedRow(row) == "raise" \in DOMAIN row

all_str(row, columns) == \A c \in columns : isinstance(row[c], "str")

update_china_claims(row) ==
    IF ~all_str(row, {"Country", "Partner Local Currency"}) THEN raised_row("AttributeError")
    ELSE LET components == <<normalize(row["Country"].s),
                             normalize(row["Partner Local Currency"].s)>>
             found == {i \in 1..Len(TRANSFORMATION_MAP.China) :
                          TRANSFORMATION_MAP.China[i].key = components}
         IN  IF found # {}
             THEN set_col(row, "Company Code",
                          TRANSFORMATION_MAP.China[CHOOSE i \in found : TRUE].value)
             ELSE row

update_wipro_claims(row) ==
    IF ~all_str(row, {"Partner"}) THEN raised_row("AttributeError")
    ELSE LET partner == normalize(row["Partner"].s)
         IN  apply_rules(row, TRANSFORMATION_MAP.Wipro,
                         {r \in Range(TRANSFORMATION_MAP.Wipro) : r.key = partner})

update_accenture_claims(row) ==
    IF ~all_str(row, {"Partner"}) THEN raised_row("AttributeError")
    ELSE LET partner == normalize(row["Partner"].s)
         IN  apply_rules(row, TRANSFORMATION_MAP.Accenture,
                         {r \in Range(TRANSFORMATION_MAP.Accenture) : r.key = partner})

update_odine_claims(row) ==
    IF ~all_str(row, {"Partner", "APPROVAL_BUDGET_FUND"}) THEN raised_row("AttributeError")
    ELSE LET partner == normalize(row["Partner"].s)
             fund == normalize(row["APPROVAL_BUDGET_FUND"].s)
         IN  apply_rules(row, TRANSFORMATION_MAP.Odine,
                         {r \in Range(TRANSFORMATION_MAP.Odine) :
                              partner = r.key[1] /\ contains(r.key[2], fund)})

update_latam_claims(row) ==
    IF ~all_str(row, {"Region", "Partner Local Currency"}) THEN raised_row("AttributeError")
    ELSE LET accounting_region == normalize(row["Region"].s)
             partner_local_currency == normalize(row["Partner Local Currency"].s)
         IN  apply_rules(row, TRANSFORMATION_MAP.Latam,
                         {r \in Range(TRANSFORMATION_MAP.Latam) :
                              accounting_region = r.key[1] /\ partner_local_currency = r.key[2]})

update_nokia_claims(row) ==
    IF ~all_str(row, {"Region", "Activity"}) THEN raised_row("AttributeError")
    ELSE LET accounting_region == normalize(row["Region"].s)
             activity == normalize(row["Activity"].s)
         IN  apply_rules(row, TRANSFORMATION_MAP.Nokia,
                         {r \in Range(TRANSFORMATION_MAP.Nokia) :
                              accounting_region = r.key[1] /\ contains(activity, r.key[2])})

\* the list with update_wipro_claims ahead of update_china_claims
edge_case_methods_wipro_first ==
    <<"Wipro", "China", "Accenture", "Odine", "Latam", "Nokia">>

\* edge_case_methods, in the order the loop applies them
edge_case_methods == <<"China", "Wipro", "Accenture", "Odine", "Latam", "Nokia">>

apply_edge_case(method, row) ==
    CASE method = "China" -> update_china_claims(row)
      [] method = "Wipro" -> update_wipro_claims(row)
      [] method = "Accenture" -> update_accenture_claims(row)
      [] method = "Odine" -> update_odine_claims(row)
      [] method = "Latam" -> update_latam_claims(row)
      [] method = "Nokia" -> update_nokia_claims(row)

(***************************************************************************)
(* Summary Row Synthesizer.  SUMMARY_ROW_VALUE_MAP is a constant of        *)
(* mdf_accruals.constants: the PA-level columns a summary row copies from  *)
(* the first row of its group, and the claim-level columns it sets to      *)
(* "MULTIPLE".                                                             *)
(***************************************************************************)
SUMMARY_ROW_VALUE_MAP ==
    [PA |-> {"Activity", "Partner", "Region", "Country", "Program", "Accounting Category",
             "Cost Center", "DR Account", "Partner Type", "APPROVAL_BUDGET_FUND",
             "APPROVAL_BUDGET_NAME", "Partner Local Currency", "Company Code", "PA Status",
             "Approved PA in Local Currency", "Activity Start Date", "Activity End Date",
             "Sales Channel", "Project Code", "Days to Accrue"},
     CLAIM |-> {"Claim Status", "Status", "Claim Invoice or Credit Memo Settlement Status",
                "Invoice or Credit Memo Processed in Oracle?", "Claim Approved Amount (Local)",
                "Claim Approved in Local Currency",
                "Convert to Partner Currency - Payment Amount"}]

\* the positions of a table that satisfy a test, as a table in the same order
RECURSIVE select_rows(_, _)
select_rows(table, positions) ==
    IF Len(table) = 0 THEN <<>>
    ELSE LET rest == select_rows(SubSeq(table, 1, Len(table) - 1), positions)
         IN  IF Len(table) \in positions THEN Append(rest, table[Len(table)]) ELSE rest

\* accruals_report["PA Number"].duplicated(keep=False)
duplicate_mask(report) ==
    {i \in 1..Len(report) :
        \E j \in 1..Len(report) : j # i /\ report[j]["PA Number"] = report[i]["PA Number"]}

\* the candidates chosen without the filter on PA Status
candidate_positions_any_status(report) ==
    {i \in duplicate_mask(report) : report[i]["Program"] = Str(Lit.ALLIANCECOOP)}

\* the first state of repeated_pa_claims: the candidates, as positions of the report
candidate_positions(report) ==
    {i \in duplicate_mask(report) :
        /\ report[i]["PA Status"] \in {Str(Lit.APPROVED), Str(Lit.PENDINGAPPROVAL)}
        /\ report[i]["Program"] = Str(Lit.ALLIANCECOOP)}

occurrences(table, row) == Cardinality({i \in 1..Len(table) : table[i] = row})

\* pd.concat([accruals_report, repeated_pa_claims]).drop_duplicates(keep=False)
unique_pa_claims(report, repeated) ==
    IF Len(repeated) = 0 THEN report
    ELSE LET both == report \o repeated
         IN  select_rows(both, {i \in 1..Len(both) : occurrences(both, both[i]) = 1})

\* repeated_pa_claims["PA Number"] without unique(): every position
first_appearances_all(repeated) == 1..Len(repeated)

\* repeated_pa_claims["PA Number"].unique(): the positions of first appearance
first_appearances(repeated) ==
    {i \in 1..Len(repeated) :
        \A j \in 1..(i - 1) : repeated[j]["PA Number"] # repeated[i]["PA Number"]}

\* repeated_pa_claims[repeated_pa_claims["PA Number"] == pa_number]
group_slice(repeated, pa_number) ==
    select_rows(repeated, {i \in 1..Len(repeated) : py_eq(repeated[i]["PA Number"], pa_number)})

\* f"{value}" of a str
format_str(v) == v.s

RECURSIVE sum_floats(_)
sum_floats(cells) ==
    IF Len(cells) = 0 THEN Float(0)
    ELSE LET rest == sum_floats(Tail(cells))
         IN  IF IsNaN(cells[1]) \/ IsNaN(rest) THEN NaN ELSE Float(cells[1].n + rest.n)

column_of(table, column) == [i \in 1..Len(table) |-> table[i][column]]

\* round(pa_amount * reduction_factor, 2): the processed amounts not subtracted
summary_total_pa_accrual_gross(pa_amount, reduction_factor, processed) ==
    IF IsNaN(pa_amount) \/ IsNaN(reduction_factor) \/ IsNaN(processed) THEN NaN
    ELSE Float(round_div(pa_amount.n * reduction_factor.n, 100))

\* round(pa_amount * reduction_factor - processed, 2), in hundredths
summary_total_pa_accrual(pa_amount, reduction_factor, processed) ==
    IF IsNaN(pa_amount) \/ IsNaN(reduction_factor) \/ IsNaN(processed) THEN NaN
    ELSE Float(round_div(pa_amount.n * reduction_factor.n - processed.n * 100, 100))

\* pa_number_group: the member rows followed by the blank row; the result is the
\* group with the blank row filled, or the exception raised
fill_summary_rows(pa_number_group, reduction_factor) ==
    LET last == Len(pa_number_group)
        first_row == pa_number_group[1]
        last_member == pa_number_group[last - 1]
        blank == pa_number_group[last]
        defaults == [c \in DOMAIN blank |->
                        IF c \in SUMMARY_ROW_VALUE_MAP.PA THEN first_row[c]
                        ELSE IF c \in SUMMARY_ROW_VALUE_MAP.CLAIM THEN Str(Lit.MULTIPLE)
                        ELSE blank[c]]
        numbered ==
            [defaults EXCEPT
                !["PA Number"] = Str(format_str(first_row["PA Number"]) \o Lit.dotS),
                !["Claim Number"] =
                    Str(format_str(first_row["Claim Number"]) \o FieldText.dash
                        \o <<last_member["Claim Number"].s[Len(last_member["Claim Number"].s)]>>
                        \o Lit.dotS),
                !["Invoice or Credit Memo Processed Amount (Local Currency)"] =
                    sum_floats(column_of(SubSeq(pa_number_group, 1, last - 1),
                                         "Invoice or Credit Memo Processed Amount (Local Currency)"))]
        with_sum == [pa_number_group EXCEPT ![last] = numbered]
        pa_amount == numbered["Approved PA in Local Currency"]
        processed_claims ==
            select_rows(with_sum,
                {i \in 1..last :
                    with_sum[i]["Invoice or Credit Memo Processed in Oracle?"] = Str(Lit.YES)})
        total_pa_accrual ==
            summary_total_pa_accrual(pa_amount, reduction_factor,
                sum_floats(column_of(processed_claims,
                                     "Invoice or Credit Memo Processed Amount (Local Currency)")))
        days_to_accrue == numbered["Days to Accrue"]
        filled ==
            [numbered EXCEPT
                !["Total PA Accrual (Local Currency)"] = total_pa_accrual,
                !["Accrual Reduction Factor"] = reduction_factor,
                !["PA Daily Accrual Rate"] = divide_or_zero(total_pa_accrual, days_to_accrue),
                !["Total Unprocessed Claim Accrual (Local Currency)"] = Str(Lit.NA_text),
                !["Unprocessed Claim Daily Accrual Rate"] = Str(Lit.NA_text)]
    IN  IF ~(SUMMARY_ROW_VALUE_MAP.PA \subseteq DOMAIN first_row)
        THEN [raised |-> "ColumnSubsetError", group |-> <<>>]
        ELSE IF ~isinstance(last_member["Claim Number"], "str")
        THEN [raised |-> "TypeError", group |-> <<>>]
        ELSE IF Len(last_member["Claim Number"].s) = 0
        THEN [raised |-> "IndexError", group |-> <<>>]
        ELSE IF ~isinstance(pa_amount, "float") \/ ~isinstance(reduction_factor, "float")
                \/ ~isinstance(days_to_accrue, "int")
        THEN [raised |-> "TypeError", group |-> <<>>]
        ELSE [raised |-> "none", group |-> [pa_number_group EXCEPT ![last] = filled]]

add_summary_flag(pa_status, claim_number) ==
    IF contains(Lit.dotS, claim_number.s) THEN Str(Lit.YES_SUMMARY)
    ELSE IF pa_status = Str(Lit.CLOSED) THEN Str(Lit.YES_CLOSED)
    ELSE Str(Lit.YES_REPEATED)

\* one pass of the loop over pa_number_group_slices: the group as it is appended to
\* processed_groups_list, or the exception raised
process_group(slice, pa_to_claim_factors) ==
    LET activity == slice[1]["Activity"]
        region == slice[1]["Region"]
        reduction_factors == factor_rows(activity, pa_to_claim_factors)
        blank_row == [c \in DOMAIN slice[1] |-> Str(Lit.empty)]
    IN  IF Len(slice) = 0 THEN [raised |-> "none", group |-> <<>>]
        ELSE IF Len(reduction_factors) = 0 \/ ~in_factor_columns(region)
        THEN [raised |-> "none", group |-> slice]
        ELSE fill_summary_rows(Append(slice, blank_row), factor_cell(reduction_factors[1], region))

RECURSIVE concat_groups(_)
concat_groups(groups) ==
    IF Len(groups) = 0 THEN <<>> ELSE groups[1].group \o concat_groups(Tail(groups))

\* the table returned, or the exception raised
add_summary_rows(accruals_report, pa_to_claim_factors) ==
    LET repeated == select_rows(accruals_report, candidate_positions(accruals_report))
        unique == unique_pa_claims(accruals_report, repeated)
        firsts == select_rows(repeated, first_appearances(repeated))
        processed_groups_list ==
            [g \in 1..Len(firsts) |->
                process_group(group_slice(repeated, firsts[g]["PA Number"]), pa_to_claim_factors)]
        failed == {g \in 1..Len(firsts) : processed_groups_list[g].raised # "none"}
        regrouped == concat_groups(processed_groups_list)
        flag_errors == {i \in 1..Len(regrouped) : ~isinstance(regrouped[i]["Claim Number"], "str")}
        flagged ==
            [i \in 1..Len(regrouped) |->
                set_col(regrouped[i], "Summary Row for Repeating PA Numbers",
                        add_summary_flag(regrouped[i]["PA Status"], regrouped[i]["Claim Number"]))]
        unflagged ==
            [i \in 1..Len(unique) |->
                set_col(unique[i], "Summary Row for Repeating PA Numbers", Str(Lit.NO))]
    IN  IF failed # {}
        THEN [raised |-> processed_groups_list[CHOOSE g \in failed : \A h \in failed : g <= h].raised,
              table |-> <<>>]
        ELSE IF flag_errors # {} THEN [raised |-> "TypeError", table |-> <<>>]
        ELSE [raised |-> "none", table |-> unflagged \o flagged]

(***************************************************************************)
(* Accrual Schedule Builder.  A month column is named by its label         *)
(* "<Month Name> <Year>", held as [name, year]; MONTH_NAME_MAP is a        *)
(* constant of mdf_accruals.constants.                                     *)
(***************************************************************************)
MONTH_NAME_MAP ==
    <<"January", "February", "March", "April", "May", "June", "July", "August",
      "September", "October", "November", "December">>

\* f"{MONTH_NAME_MAP[month]} {str(accrual_date.year)}"
month_key(y, m) == [name |-> MONTH_NAME_MAP[m], year |-> y]

\* pd.date_range(first_day_start_month, last_day_end_month, freq="M"), as <<year, month>>
accrual_dates(activity_start_date, activity_end_date) ==
    LET first == year_of(activity_start_date) * 12 + month_of(activity_start_date) - 1
        last == year_of(activity_end_date) * 12 + month_of(activity_end_date) - 1
    IN  [k \in 1..(last - first + 1) |-> <<(first + k - 1) \div 12, ((first + k - 1) % 12) + 1>>]

\* the day count of one month of the schedule
month_days_to_accrue(y, month, activity_start_date, activity_end_date) ==
    IF month = month_of(activity_start_date) /\ month = month_of(activity_end_date)
    THEN day_of(activity_end_date) - day_of(activity_start_date) + 1
    ELSE IF month = month_of(activity_start_date)
    THEN days_in_month(y, month) - day_of(activity_start_date) + 1
    ELSE IF month = month_of(activity_end_date) THEN day_of(activity_end_date)
    ELSE days_in_month(y, month)

\* claim_approved_local == "NOCLAIM" or claim_approved_local <= 0
no_claim(claim_approved_local) ==
    \/ claim_approved_local = Str(Lit.NOCLAIM)
    \/ IsNumber(claim_approved_local) /\ claim_approved_local.n <= 0

\* the choice with the claim amount read before the summary flag
select_accrual_rate_claim_first(claim_approved_local, pa_accrual_rate, unprocessed_accrual_rate, summary_flag) ==
    IF isinstance(claim_approved_local, "str") /\ claim_approved_local # Str(Lit.NOCLAIM)
    THEN Raise("TypeError")
    ELSE IF isinstance(claim_approved_local, "date") THEN Raise("TypeError")
    ELSE IF no_claim(claim_approved_local) THEN pa_accrual_rate
    ELSE IF summary_flag = Str(Lit.YES_SUMMARY) THEN pa_accrual_rate
    ELSE unprocessed_accrual_rate

select_accrual_rate(claim_approved_local, pa_accrual_rate, unprocessed_accrual_rate, summary_flag) ==
    IF summary_flag = Str(Lit.YES_SUMMARY) THEN pa_accrual_rate
    ELSE IF isinstance(claim_approved_local, "str") /\ claim_approved_local # Str(Lit.NOCLAIM)
    THEN Raise("TypeError")
    ELSE IF isinstance(claim_approved_local, "date") THEN Raise("TypeError")
    ELSE IF no_claim(claim_approved_local) THEN pa_accrual_rate
    ELSE unprocessed_accrual_rate

\* round(days_to_accrue * accrual_rate, 2)
month_amount(days, accrual_rate) ==
    IF IsNaN(accrual_rate) THEN NaN ELSE Float(days * hundredths_of(accrual_rate))

\* the dict month label -> amount of one row, as [raised, amounts]
get_monthly_accruals(claim_approved_local, pa_accrual_rate, unprocessed_accrual_rate, activity_start_date, activity_end_date, summary_flag) ==
    IF ~dict_type_check(<< <<activity_start_date, "date">>, <<activity_end_date, "date">>,
                           <<summary_flag, "str">> >>)
    THEN [raised |-> "ImproperArgumentError", amounts |-> <<>>]
    ELSE LET dates == accrual_dates(activity_start_date, activity_end_date)
             accrual_rate == select_accrual_rate(claim_approved_local, pa_accrual_rate,
                                                 unprocessed_accrual_rate, summary_flag)
             keys == {month_key(dates[k][1], dates[k][2]) : k \in 1..Len(dates)}
         IN  IF IsError(accrual_rate) THEN [raised |-> accrual_rate.ty, amounts |-> <<>>]
             ELSE IF Len(dates) > 0 /\ ~IsNumber(accrual_rate) /\ ~IsNaN(accrual_rate)
             THEN [raised |-> "TypeError", amounts |-> <<>>]
             ELSE [raised |-> "none",
                   amounts |->
                       [key \in keys |->
                           LET k == CHOOSE j \in 1..Len(dates) :
                                        /\ month_key(dates[j][1], dates[j][2]) = key
                                        /\ \A h \in (j + 1)..Len(dates) :
                                               month_key(dates[h][1], dates[h][2]) # key
                           IN  month_amount(
                                   month_days_to_accrue(dates[k][1], dates[k][2],
                                                        activity_start_date, activity_end_date),
                                   accrual_rate)]]

(***************************************************************************)
(* Report Assembler: ReportManager.prepare_accruals_report.  The columns   *)
(* kept and the canonical months are constants of mdf_accruals.constants.  *)
(***************************************************************************)
KEEP_COLUMNS_ACCRUALS_REPORT ==
    {"PA Number", "Claim Number", "Activity", "Partner", "Region", "Country", "Program",
     "Company Code", "Cost Center", "Sales Channel", "Project Code", "Intercompany Code",
     "Product Code", "Claim Status", "PA Status",
     "Claim Invoice or Credit Memo Settlement Status",
     "Invoice or Credit Memo Processed in Oracle?",
     "Invoice or Credit Memo Processed Amount (Local Currency)",
     "Approved PA in Local Currency", "Claim Approved in Local Currency",
     "Activity Start Date", "Activity End Date", "Days to Accrue",
     "Total PA Accrual (Local Currency)", "Accrual Reduction Factor",
     "Total Unprocessed Claim Accrual (Local Currency)", "PA Daily Accrual Rate",
     "Unprocessed Claim Daily Accrual Rate", "Summary Row for Repeating PA Numbers"}

ACCRUAL_MONTHS == <<month_key(2024, 1), month_key(2024, 2), month_key(2024, 3)>>

\* dt.datetime.strptime(x, "%B %Y"), as year * 12 + month - 1
MONTH_NAMES ==
    <<"January", "February", "March", "April", "May", "June", "July", "August",
      "September", "October", "November", "December">>

strptime(label) ==
    label.year * 12 + (CHOOSE m \in 1..12 : MONTH_NAMES[m] = label.name) - 1

\* sorted(columns, key=strptime)
RECURSIVE sorted_months(_)
sorted_months(labels) ==
    IF labels = {} THEN <<>>
    ELSE LET least == CHOOSE x \in labels : \A y \in labels : strptime(x) <= strptime(y)
         IN  <<least>> \o sorted_months(labels \ {least})

\* quarters of four months
quarter_of_four_months(label) ==
    [year |-> label.year, quarter |-> ((strptime(label) % 12) \div 4) + 1]

\* the pandas quarter of a month column
quarter_of(label) ==
    [year |-> label.year, quarter |-> ((strptime(label) % 12) \div 3) + 1]

\* f"Q{quarter.quarter} {quarter.year}"
quarter_name(quarter) ==
    [name |-> <<"Q1", "Q2", "Q3", "Q4">>[quarter.quarter], year |-> quarter.year]

TOTAL_ACCRUAL == [name |-> "Total Accrual", year |-> 0]

\* the quarters of the month columns, in the order groupby visits them
RECURSIVE sorted_quarters(_)
sorted_quarters(quarters) ==
    IF quarters = {} THEN <<>>
    ELSE LET least == CHOOSE x \in quarters :
                          \A y \in quarters : x.year * 4 + x.quarter <= y.year * 4 + y.quarter
         IN  <<least>> \o sorted_quarters(quarters \ {least})

RECURSIVE quarterly_sum_columns(_, _)
quarterly_sum_columns(months, quarters) ==
    IF Len(quarters) = 0 THEN <<>>
    ELSE SelectSeq(months, LAMBDA label : quarter_of(label) = quarters[1])
             \o <<quarter_name(quarters[1])>> \o quarterly_sum_columns(months, Tail(quarters))

RECURSIVE sum_hundredths(_, _)
sum_hundredths(amounts, labels) ==
    IF labels = {} THEN 0
    ELSE LET x == CHOOSE y \in labels : TRUE
         IN  amounts[x].n + sum_hundredths(amounts, labels \ {x})

\* the names of the schedule columns, in output order
add_quarterly_sums_columns(months) ==
    quarterly_sum_columns(months,
        sorted_quarters({quarter_of(months[i]) : i \in 1..Len(months)})) \o <<TOTAL_ACCRUAL>>

\* one row of the schedule table: months, quarter sums and the total
add_quarterly_sums_row(amounts, months) ==
    LET labels == Range(months)
        quarters == {quarter_of(x) : x \in labels}
    IN  [c \in labels \cup {quarter_name(q) : q \in quarters} \cup {TOTAL_ACCRUAL} |->
            IF c \in labels THEN amounts[c]
            ELSE IF c = TOTAL_ACCRUAL THEN Float(sum_hundredths(amounts, labels))
            ELSE Float(sum_hundredths(amounts,
                     {x \in labels : quarter_name(quarter_of(x)) = c}))]

\* the month cells of one row without fillna: the cells not produced stay missing
filled_amounts_unfilled(amounts, labels) ==
    [c \in labels |-> IF c \in DOMAIN amounts THEN amounts[c] ELSE NaN]

\* the month cells of one row after the missing months are added and fillna(0.00)
filled_amounts(amounts, labels) ==
    [c \in labels |->
        IF c \in DOMAIN amounts /\ ~IsNaN(amounts[c]) THEN amounts[c] ELSE Float(0)]

\* the assembly with the schedule table joined in reverse row order
prepare_accruals_report_reversed(accruals_report, monthly_accrual_amounts) ==
    LET with_codes ==
            [i \in 1..Len(accruals_report) |->
                set_col(set_col(accruals_report[i], "Intercompany Code", Str(Lit.c000)),
                        "Product Code", Str(Lit.c000))]
        produced == UNION {DOMAIN monthly_accrual_amounts[i] :
                              i \in 1..Len(monthly_accrual_amounts)}
        labels == produced \cup Range(ACCRUAL_MONTHS)
        chronological_months == sorted_months(labels)
    IN  IF \E i \in 1..Len(with_codes) : ~(KEEP_COLUMNS_ACCRUALS_REPORT \subseteq DOMAIN with_codes[i])
        THEN [raised |-> "KeyError", table |-> <<>>, accrual_column_names |-> <<>>]
        ELSE [raised |-> "none",
              table |->
                  [i \in 1..Len(with_codes) |->
                      [report |-> [c \in KEEP_COLUMNS_ACCRUALS_REPORT |-> with_codes[i][c]],
                       accruals |->
                           add_quarterly_sums_row(
                               filled_amounts(
                                   monthly_accrual_amounts[Len(with_codes) + 1 - i], labels),
                               chronological_months)]],
              accrual_column_names |-> add_quarterly_sums_columns(chronological_months)]

\* the tuple (table, accrual_column_names) returned, or the exception raised
prepare_accruals_report(accruals_report, monthly_accrual_amounts) ==
    LET with_codes ==
            [i \in 1..Len(accruals_report) |->
                set_col(set_col(accruals_report[i], "Intercompany Code", Str(Lit.c000)),
                        "Product Code", Str(Lit.c000))]
        produced == UNION {DOMAIN monthly_accrual_amounts[i] :
                              i \in 1..Len(monthly_accrual_amounts)}
        labels == produced \cup Range(ACCRUAL_MONTHS)
        chronological_months == sorted_months(labels)
    IN  IF \E i \in 1..Len(with_codes) : ~(KEEP_COLUMNS_ACCRUALS_REPORT \subseteq DOMAIN with_codes[i])
        THEN [raised |-> "KeyError", table |-> <<>>, accrual_column_names |-> <<>>]
        ELSE [raised |-> "none",
              table |->
                  [i \in 1..Len(with_codes) |->
                      [report |-> [c \in KEEP_COLUMNS_ACCRUALS_REPORT |-> with_codes[i][c]],
                       accruals |->
                           add_quarterly_sums_row(
                               filled_amounts(monthly_accrual_amounts[i], labels),
                               chronological_months)]],
              accrual_column_names |-> add_quarterly_sums_columns(chronological_months)]

(***************************************************************************)
(* The inputs of a run.                                                    *)
(***************************************************************************)
\* one claim row of the joined base report, every field of its documented type
BaseRow ==
    ("PA Number" :> Str(FieldText.P1)) @@ ("Claim Number" :> Str(FieldText.C1))
    @@ ("Activity" :> Str(FieldText.Event)) @@ ("Partner" :> Str(FieldText.ACME))
    @@ ("Region" :> Str(Lit.EMEA)) @@ ("Country" :> Str(FieldText.US))
    @@ ("Program" :> Str(Lit.ALLIANCECOOP)) @@ ("Accounting Category" :> Str(FieldText.COGS))
    @@ ("Cost Center" :> Str(FieldText.c100)) @@ ("DR Account" :> Str(Lit.c262555))
    @@ ("Partner Type" :> Str(FieldText.Reseller)) @@ ("APPROVAL_BUDGET_FUND" :> Str(FieldText.MDF_Fund))
    @@ ("APPROVAL_BUDGET_NAME" :> Str(FieldText.MDF_Fund)) @@ ("Partner Local Currency" :> Str(FieldText.CNY))
    @@ ("Company Code" :> Str(FieldText.c100)) @@ ("Claim Status" :> Str(Lit.SUBMITTED))
    @@ ("PA Status" :> Str(Lit.APPROVED)) @@ ("Status" :> NaN)
    @@ ("Approved PA in Local Currency" :> Float(100000))
    @@ ("Claim Approved Amount (Local)" :> NaN)
    @@ ("Claim Approved in Local Currency" :> Str(Lit.NOCLAIM))
    @@ ("Convert to Partner Currency - Payment Amount" :> NaN)
    @@ ("Activity Start Date" :> Date(2024, 1, 15))
    @@ ("Activity End Date" :> Date(2024, 3, 10))

\* the Activities Table columns Activity, APAC, EMEA, LATAM, NA
FactorTable ==
    << [Activity |-> Str(FieldText.Event),
        factor |-> (Lit.APAC :> Float(50)) @@ (Lit.EMEA :> Float(85))
                   @@ (Lit.LATAM :> Float(100)) @@ (Lit.NA :> Float(33))] >>

VARIABLES
    base_report,              \* ReportBuilder.base_report
    pa_to_claims_factors,     \* the argument of build_accruals_report
    accruals_report,          \* the local table of the run in flight
    monthly_accrual_amounts,  \* the list of the rows' month -> amount dicts
    pc,                       \* the statement of build_accruals_report reached
    error,                    \* the exception that reached the caller, "none" if none
    result,                   \* the tuple returned, NoResult while nothing is returned
    run,                      \* the number of the call on this builder
    first_outcome             \* what the first call returned or raised

vars ==
    <<base_report, pa_to_claims_factors, accruals_report, monthly_accrual_amounts, pc,
      error, result, run, first_outcome>>

NoResult == [table |-> <<>>, accrual_column_names |-> <<>>]
NoOutcome == [pc |-> "none", error |-> "none", result |-> NoResult]

\* accruals_report = self.base_report: the run writes to the builder's own table
base_aliased(stored, written) == written

\* the stored table without the copy: the columns assigned to the working table are
\* assigned to it, the table that the summary step returns is another object
base_without_copy(stored, written) == IF Len(written) = Len(stored) THEN written ELSE stored

\* accruals_report = self.base_report.copy(deep=True): what the builder's field holds
\* after the run has written `written` to its copy
base_after_write(stored, written) == stored

\* the exception leaves build_accruals_report: nothing is returned
Fail(kind) ==
    /\ pc' = "failed"
    /\ error' = kind
    /\ accruals_report' = <<>>
    /\ monthly_accrual_amounts' = <<>>
    /\ UNCHANGED <<base_report, pa_to_claims_factors, result, run, first_outcome>>

\* accruals_report[column] = accruals_report.apply(..., axis=1), then the next statement
Assign(column, values, next) ==
    IF first_error(values) # 0 THEN Fail(values[first_error(values)].ty)
    ELSE /\ accruals_report' = assign_column(accruals_report, column, values)
         /\ base_report' = base_after_write(base_report, accruals_report')
         /\ pc' = next
         /\ UNCHANGED <<pa_to_claims_factors, monthly_accrual_amounts, error, result, run,
                        first_outcome>>

Rows == 1..Len(accruals_report)

Start ==
    /\ pc = "start"
    /\ accruals_report' = base_report
    /\ pc' = "settlement_status"
    /\ UNCHANGED <<base_report, pa_to_claims_factors, monthly_accrual_amounts, error, result,
                   run, first_outcome>>

SettlementStatus ==
    /\ pc = "settlement_status"
    /\ Assign("Claim Invoice or Credit Memo Settlement Status",
              [i \in Rows |-> get_settlement_status(accruals_report[i]["Status"])],
              "cost_center")

CostCenter ==
    /\ pc = "cost_center"
    /\ Assign("Cost Center",
              [i \in Rows |->
                  calculate_cost_center(accruals_report[i]["Cost Center"],
                                        accruals_report[i]["Accounting Category"],
                                        accruals_report[i]["Program"],
                                        accruals_report[i]["APPROVAL_BUDGET_FUND"])],
              "sales_channel")

SalesChannel ==
    /\ pc = "sales_channel"
    /\ Assign("Sales Channel",
              [i \in Rows |->
                  calculate_sales_channel(accruals_report[i]["Region"],
                                          accruals_report[i]["DR Account"],
                                          accruals_report[i]["Partner Type"])],
              "project_code")

ProjectCode ==
    /\ pc = "project_code"
    /\ Assign("Project Code",
              [i \in Rows |->
                  calculate_project_code(accruals_report[i]["APPROVAL_BUDGET_NAME"],
                                         accruals_report[i]["Program"],
                                         accruals_report[i]["Partner"])],
              "days_to_accrue")

DaysToAccrue ==
    /\ pc = "days_to_accrue"
    /\ Assign("Days to Accrue",
              [i \in Rows |->
                  calculate_days_to_accrue(accruals_report[i]["Activity Start Date"],
                                           accruals_report[i]["Activity End Date"])],
              "is_processed")

IsProcessed ==
    /\ pc = "is_processed"
    /\ Assign("Invoice or Credit Memo Processed in Oracle?",
              [i \in Rows |->
                  is_processed(accruals_report[i]["Claim Invoice or Credit Memo Settlement Status"])],
              "processed_amount")

ProcessedAmount ==
    /\ pc = "processed_amount"
    /\ Assign("Invoice or Credit Memo Processed Amount (Local Currency)",
              [i \in Rows |->
                  get_processed_amount(
                      accruals_report[i]["Invoice or Credit Memo Processed in Oracle?"],
                      accruals_report[i]["Convert to Partner Currency - Payment Amount"])],
              "total_pa_accrual")

\* the pairs of the rows, written to the two columns at once
TotalPaAccrual ==
    /\ pc = "total_pa_accrual"
    /\ LET pairs ==
               [i \in Rows |->
                   get_total_pa_accrual(
                       accruals_report[i]["Activity"],
                       accruals_report[i]["Claim Status"],
                       accruals_report[i]["Region"],
                       accruals_report[i]["Invoice or Credit Memo Processed in Oracle?"],
                       accruals_report[i]["Approved PA in Local Currency"],
                       pa_to_claims_factors)]
           totals == [i \in Rows |-> pairs[i][1]]
       IN  IF first_error(totals) # 0 THEN Fail(totals[first_error(totals)].ty)
           ELSE /\ accruals_report' =
                       assign_column(
                           assign_column(accruals_report, "Total PA Accrual (Local Currency)",
                                         totals),
                           "Accrual Reduction Factor", [i \in Rows |-> pairs[i][2]])
                /\ base_report' = base_after_write(base_report, accruals_report')
                /\ pc' = "total_unprocessed_accrual"
                /\ UNCHANGED <<pa_to_claims_factors, monthly_accrual_amounts, error, result,
                               run, first_outcome>>

TotalUnprocessedAccrual ==
    /\ pc = "total_unprocessed_accrual"
    /\ Assign("Total Unprocessed Claim Accrual (Local Currency)",
              [i \in Rows |->
                  get_total_unprocessed_accrual(
                      accruals_report[i]["Claim Status"],
                      accruals_report[i]["Invoice or Credit Memo Processed in Oracle?"],
                      accruals_report[i]["Claim Approved Amount (Local)"])],
              "pa_daily_accrual_rate")

PaDailyAccrualRate ==
    /\ pc = "pa_daily_accrual_rate"
    /\ Assign("PA Daily Accrual Rate",
              [i \in Rows |->
                  calculate_daily_accrual_rates(
                      accruals_report[i]["Total PA Accrual (Local Currency)"],
                      accruals_report[i]["Days to Accrue"])],
              "unprocessed_daily_accrual_rate")

UnprocessedDailyAccrualRate ==
    /\ pc = "unprocessed_daily_accrual_rate"
    /\ Assign("Unprocessed Claim Daily Accrual Rate",
              [i \in Rows |->
                  calculate_daily_accrual_rates(
                      accruals_report[i]["Total Unprocessed Claim Accrual (Local Currency)"],
                      accruals_report[i]["Days to Accrue"])],
              edge_case_methods[1])

\* one pass of: for method in edge_case_methods: accruals_report = accruals_report.apply(method)
EdgeCase ==
    /\ pc \in Range(edge_case_methods)
    /\ LET k == CHOOSE j \in 1..Len(edge_case_methods) : edge_case_methods[j] = pc
           updated == [i \in Rows |-> apply_edge_case(pc, accruals_report[i])]
           raised == {i \in Rows : IsRaisedRow(updated[i])}
       IN  IF raised # {}
           THEN Fail(updated[CHOOSE i \in raised : \A j \in raised : i <= j]["raise"].ty)
           ELSE /\ accruals_report' = updated
                /\ base_report' = base_after_write(base_report, accruals_report')
                /\ pc' = IF k < Len(edge_case_methods) THEN edge_case_methods[k + 1]
                         ELSE "add_summary_rows"
                /\ UNCHANGED <<pa_to_claims_factors, monthly_accrual_amounts, error, result,
                               run, first_outcome>>

AddSummaryRows ==
    /\ pc = "add_summary_rows"
    /\ LET summarized == add_summary_rows(accruals_report, pa_to_claims_factors)
       IN  IF summarized.raised # "none" THEN Fail(summarized.raised)
           ELSE /\ accruals_report' = summarized.table
                /\ base_report' = base_after_write(base_report, accruals_report')
                /\ pc' = "monthly_accruals"
                /\ UNCHANGED <<pa_to_claims_factors, monthly_accrual_amounts, error, result,
                               run, first_outcome>>

\* the loop over accruals_report.iterrows()
MonthlyAccruals ==
    /\ pc = "monthly_accruals"
    /\ LET dicts ==
               [i \in Rows |->
                   get_monthly_accruals(
                       accruals_report[i]["Claim Approved in Local Currency"],
                       accruals_report[i]["PA Daily Accrual Rate"],
                       accruals_report[i]["Unprocessed Claim Daily Accrual Rate"],
                       accruals_report[i]["Activity Start Date"],
                       accruals_report[i]["Activity End Date"],
                       accruals_report[i]["Summary Row for Repeating PA Numbers"])]
           raised == {i \in Rows : dicts[i].raised # "none"}
       IN  IF raised # {}
           THEN Fail(dicts[CHOOSE i \in raised : \A j \in raised : i <= j].raised)
           ELSE /\ monthly_accrual_amounts' = [i \in Rows |-> dicts[i].amounts]
                /\ pc' = "prepare_accruals_report"
                /\ UNCHANGED <<base_report, pa_to_claims_factors, accruals_report, error,
                               result, run, first_outcome>>

PrepareAccrualsReport ==
    /\ pc = "prepare_accruals_report"
    /\ LET prepared == prepare_accruals_report(accruals_report, monthly_accrual_amounts)
       IN  IF prepared.raised # "none" THEN Fail(prepared.raised)
           ELSE /\ result' = [table |-> prepared.table,
                              accrual_column_names |-> prepared.accrual_column_names]
                /\ pc' = "done"
                /\ accruals_report' = <<>>
                /\ monthly_accrual_amounts' = <<>>
                /\ UNCHANGED <<base_report, pa_to_claims_factors, error, run, first_outcome>>

\* the caller calls build_accruals_report a second time on the same builder, with
\* the same factor table
CallAgain ==
    /\ pc \in {"done", "failed"}
    /\ run = 1
    /\ run' = 2
    /\ first_outcome' = [pc |-> pc, error |-> error, result |-> result]
    /\ pc' = "start"
    /\ error' = "none"
    /\ result' = NoResult
    /\ UNCHANGED <<base_report, pa_to_claims_factors, accruals_report, monthly_accrual_amounts>>

Next ==
    \/ Start
    \/ SettlementStatus
    \/ CostCenter
    \/ SalesChannel
    \/ ProjectCode
    \/ DaysToAccrue
    \/ IsProcessed
    \/ ProcessedAmount
    \/ TotalPaAccrual
    \/ TotalUnprocessedAccrual
    \/ PaDailyAccrualRate
    \/ UnprocessedDailyAccrualRate
    \/ EdgeCase
    \/ AddSummaryRows
    \/ MonthlyAccruals
    \/ PrepareAccrualsReport

NextTwice == Next \/ CallAgain

(***************************************************************************)
(* Initial states: the builder is constructed over a base report.          *)
(***************************************************************************)
MaxRows == 3

\* the claim rows a base report of the pipeline runs is made of
Submitted1 == BaseRow

Paid2 ==
    [BaseRow EXCEPT !["Claim Number"] = Str(FieldText.C2), !["Claim Status"] = Str(Lit.PAID),
                    !["Status"] = Str(Lit.Paid),
                    !["Convert to Partner Currency - Payment Amount"] = Float(10000),
                    !["Claim Approved Amount (Local)"] = Float(10000),
                    !["Claim Approved in Local Currency"] = Float(10000)]

Closed3 ==
    [BaseRow EXCEPT !["Claim Number"] = Str(FieldText.C3), !["PA Status"] = Str(Lit.CLOSED),
                    !["Claim Status"] = Str(Lit.PENDINGPAYMENT), !["Status"] = Str(FieldText.Open),
                    !["Claim Approved Amount (Local)"] = Float(5000),
                    !["Claim Approved in Local Currency"] = Float(5000),
                    !["Activity Start Date"] = Date(2024, 2, 1),
                    !["Activity End Date"] = Date(2024, 2, 1)]

WiproChina ==
    [BaseRow EXCEPT !["PA Number"] = Str(FieldText.P2), !["PA Status"] = Str(Lit.PENDINGAPPROVAL),
                    !["Partner"] = Str(Lit.Wipro_Ltd), !["Country"] = Str(TableText.CN),
                    !["Partner Local Currency"] = Str(TableText.USD)]

Latam ==
    [BaseRow EXCEPT !["PA Number"] = Str(FieldText.P2), !["Claim Number"] = Str(FieldText.C2),
                    !["Region"] = Str(Lit.LATAM), !["Partner Local Currency"] = Str(TableText.BRL),
                    !["Activity Start Date"] = Date(2024, 3, 10),
                    !["Activity End Date"] = Date(2024, 4, 30)]

Mdf ==
    [BaseRow EXCEPT !["PA Number"] = Str(FieldText.P2), !["Claim Number"] = Str(FieldText.C3),
                    !["Program"] = Str(FieldText.MDF)]

NoDrAccount ==
    [BaseRow EXCEPT !["PA Number"] = Str(FieldText.P2), !["Claim Number"] = Str(FieldText.C1_S),
                    !["DR Account"] = NaN, !["Partner Type"] = IntVal(7)]

BadStatus == [BaseRow EXCEPT !["Claim Number"] = Str(FieldText.C2), !["Status"] = IntVal(5)]

ClaimRows == {Submitted1, Paid2, Closed3, WiproChina, Latam, Mdf, NoDrAccount, BadStatus}

BaseReports == UNION {[1..n -> ClaimRows] : n \in 1..MaxRows}

Init ==
    /\ base_report \in BaseReports
    /\ pa_to_claims_factors = FactorTable
    /\ accruals_report = <<>>
    /\ monthly_accrual_amounts = <<>>
    /\ pc = "start"
    /\ error = "none"
    /\ result = NoResult
    /\ run = 1
    /\ first_outcome = NoOutcome

Spec == Init /\ [][Next]_vars

\* the same builder called twice
SpecTwice == Init /\ [][NextTwice]_vars

(***************************************************************************)
(* Base reports of one row, its fields drawn from the values a joined      *)
(* report can hold, for the rules of the per-row derivations.              *)
(***************************************************************************)
StatusValues == {NaN, Str(Lit.Paid), Str(Lit.Credit_Memo_Issued)}
PaymentValues == {NaN, Float(10000), Float(0 - 2500)}
ClaimStatusValues ==
    {Str(Lit.SUBMITTED), Str(Lit.empty), Str(Lit.PENDINGPAYMENT), Str(Lit.Pending_Payment),
     Str(FieldText.EXPIRED)}
ApprovedPaValues == {Float(100000), Float(1010)}
ClaimApprovedValues == {NaN, Float(5000), Float(0)}
ActivityRegionValues ==
    {<<Str(FieldText.Event), Str(Lit.EMEA)>>, <<Str(FieldText.Event), Str(Lit.APAC)>>,
     <<Str(FieldText.Webinar), Str(Lit.EMEA)>>, <<Str(FieldText.Event), Str(TableText.ROW)>>}
DateValues ==
    {<<Date(2024, 1, 15), Date(2024, 3, 10)>>, <<Date(2024, 2, 29), Date(2024, 2, 29)>>,
     <<Date(2024, 3, 10), Date(2024, 3, 9)>>}

\* Claim Approved in Local Currency as the preparation derives it
claim_approved_in_local_currency(x) ==
    IF IsNaN(x) THEN Str(Lit.NOCLAIM) ELSE IF x.n = 0 THEN IntVal(0) ELSE x

DerivationRows ==
    {[BaseRow EXCEPT !["Status"] = status,
                     !["Convert to Partner Currency - Payment Amount"] = payment,
                     !["Claim Status"] = claim_status,
                     !["Approved PA in Local Currency"] = approved,
                     !["Claim Approved Amount (Local)"] = claim_approved,
                     !["Claim Approved in Local Currency"] =
                         claim_approved_in_local_currency(claim_approved),
                     !["Activity"] = place[1], !["Region"] = place[2],
                     !["Activity Start Date"] = dates[1], !["Activity End Date"] = dates[2]] :
        status \in StatusValues, payment \in PaymentValues,
        claim_status \in ClaimStatusValues, approved \in ApprovedPaValues,
        claim_approved \in ClaimApprovedValues, place \in ActivityRegionValues,
        dates \in DateValues}

\* rows with one field of a type its derivation step does not accept
MistypedRows ==
    {[BaseRow EXCEPT ![c] = v] :
        c \in {"Status", "Cost Center", "Accounting Category", "Program",
               "APPROVAL_BUDGET_FUND", "Region", "DR Account", "Partner Type",
               "APPROVAL_BUDGET_NAME", "Partner", "Activity Start Date", "Activity End Date",
               "Convert to Partner Currency - Payment Amount", "Activity", "Claim Status",
               "Approved PA in Local Currency", "Claim Approved Amount (Local)"},
        v \in {IntVal(5), Str(FieldText.c100), Float(100000), NaN}}
    \cup {NoDrAccount}

\* rows whose texts meet the rules of the Cost Center and of the processed flag, and
\* rows with two fields of a type the Cost Center step does not accept
RuleRows ==
    {[BaseRow EXCEPT !["APPROVAL_BUDGET_FUND"] = Str(fund),
                     !["Accounting Category"] = Str(category),
                     !["Program"] = Str(program)] :
        fund \in {FieldText.MDF_Fund, FieldText.cgi_cy24_CY25, FieldText.CGI_cy_25,
                  FieldText.CGI_fund},
        category \in {FieldText.COGS, FieldText.Sales_Expense},
        program \in {FieldText.Alliance_Coop, FieldText.MDF}}
    \cup {[BaseRow EXCEPT !["Status"] = Str(status)] :
              status \in {FieldText.Open, FieldText.Settled_Through_Credit_Memo,
                          FieldText.claim_cancelled, FieldText.Processed_But_Not_Yet_Due,
                          FieldText.Paid_Out, Lit.NA_text}}
    \cup {[BaseRow EXCEPT !["Accounting Category"] = NaN, !["Program"] = IntVal(5)],
          [BaseRow EXCEPT !["Cost Center"] = Float(10000), !["APPROVAL_BUDGET_FUND"] = IntVal(5)],
          [BaseRow EXCEPT !["Accounting Category"] = IntVal(5), !["Cost Center"] = NaN]}

InitRow ==
    /\ base_report \in {<<row>> : row \in DerivationRows \cup MistypedRows \cup RuleRows}
    /\ pa_to_claims_factors = FactorTable
    /\ accruals_report = <<>>
    /\ monthly_accrual_amounts = <<>>
    /\ pc = "start"
    /\ error = "none"
    /\ result = NoResult
    /\ run = 1
    /\ first_outcome = NoOutcome

SpecRow == InitRow /\ [][Next]_vars

(***************************************************************************)
(* Base reports of the claims of one Purchase Authorization in APAC, whose *)
(* reduction factor is 0.50 for the activity Event; the factor table has   *)
(* no row for the activity Webinar.                                        *)
(***************************************************************************)
GroupRows ==
    LET ApacSubmitted == [BaseRow EXCEPT !["Region"] = Str(Lit.APAC)]
        ApacPaid == [Paid2 EXCEPT !["Region"] = Str(Lit.APAC)]
        ApacPaidLater ==
            [ApacPaid EXCEPT !["Claim Number"] = Str(FieldText.C3),
                             !["Approved PA in Local Currency"] = Float(1010),
                             !["Convert to Partner Currency - Payment Amount"] = Float(2550)]
        ApacUnpaid ==
            [ApacSubmitted EXCEPT !["Claim Number"] = Str(FieldText.C2),
                                  !["Claim Status"] = Str(Lit.Pending_Payment),
                                  !["Claim Approved Amount (Local)"] = Float(5000),
                                  !["Claim Approved in Local Currency"] = Float(5000)]
        ApacWebinar == [ApacUnpaid EXCEPT !["Activity"] = Str(FieldText.Webinar)]
        ApacYearLong ==
            [ApacSubmitted EXCEPT !["Claim Number"] = Str(FieldText.C3),
                                  !["Activity End Date"] = Date(2025, 1, 10)]
        ApacReversed ==
            [ApacUnpaid EXCEPT !["Claim Approved Amount (Local)"] = Float(0 - 2500),
                               !["Claim Approved in Local Currency"] = Float(0 - 2500)]
    IN  {ApacSubmitted, ApacPaid, ApacPaidLater, ApacUnpaid, ApacWebinar, ApacYearLong,
         ApacReversed}

InitGroups ==
    /\ base_report \in UNION {[1..n -> GroupRows] : n \in 1..MaxRows}
    /\ pa_to_claims_factors = FactorTable
    /\ accruals_report = <<>>
    /\ monthly_accrual_amounts = <<>>
    /\ pc = "start"
    /\ error = "none"
    /\ result = NoResult
    /\ run = 1
    /\ first_outcome = NoOutcome

SpecGroups == InitGroups /\ [][Next]_vars

(***************************************************************************)
(* Base reports without the column Company Code, which no derivation reads *)
(* and the assembly keeps.                                                 *)
(***************************************************************************)
InitWithoutCompanyCode ==
    /\ base_report \in
           UNION {[1..n -> {[c \in DOMAIN row \ {"Company Code"} |-> row[c]] :
                               row \in {Submitted1, Paid2, Closed3, Mdf}}] : n \in 1..MaxRows}
    /\ pa_to_claims_factors = FactorTable
    /\ accruals_report = <<>>
    /\ monthly_accrual_amounts = <<>>
    /\ pc = "start"
    /\ error = "none"
    /\ result = NoResult
    /\ run = 1
    /\ first_outcome = NoOutcome

SpecWithoutCompanyCode == InitWithoutCompanyCode /\ [][Next]_vars

(***************************************************************************)
(* Properties of a run.                                                    *)
(***************************************************************************)
DerivationSteps ==
    {"settlement_status", "cost_center", "sales_channel", "project_code", "days_to_accrue",
     "is_processed", "processed_amount", "total_pa_accrual", "total_unprocessed_accrual",
     "pa_daily_accrual_rate", "unprocessed_daily_accrual_rate"}

\* the stages of a run in the documented order; a pc names the stage about to run
StageOrder ==
    <<"start", "derivations", "China", "Wipro", "Accenture", "Odine", "Latam", "Nokia",
      "add_summary_rows", "monthly_accruals", "prepare_accruals_report", "done">>

stage_of(p) ==
    IF p \in DerivationSteps THEN 2
    ELSE CHOOSE k \in 1..Len(StageOrder) : StageOrder[k] = p

\* a row that both the China rule and the Wipro rule match
IsWiproChina(row) ==
    /\ all_str(row, {"Partner", "Country", "Partner Local Currency"})
    /\ normalize(row["Partner"].s) = TableText.WIPRO
    /\ normalize(row["Country"].s) = TableText.CN
    /\ normalize(row["Partner Local Currency"].s) = TableText.USD

\* C1: a run goes through copy, derivations, the six override sets in the order
\* China, Wipro, Accenture, Odine, Latam, Nokia, summary rows, schedule and assembly,
\* never skipping a stage or going back, each stage over the whole table; a column
\* that two override sets write keeps the value of the later set: a row that both
\* the China and the Wipro rule match carries China's Company Code until Wipro has
\* run and Wipro's from then on.
C1_StageOrderLaterOverrideWins ==
    /\ [][pc' # pc /\ pc' # "failed" => stage_of(pc') \in {stage_of(pc), stage_of(pc) + 1}]_vars
    /\ [](\A i \in 1..Len(accruals_report) :
            IsWiproChina(accruals_report[i]) =>
                /\ pc = "Wipro" => accruals_report[i]["Company Code"] = Str(TableText.c110)
                /\ pc # "failed" /\ stage_of(pc) > stage_of("Wipro")
                       => accruals_report[i]["Company Code"] = Str(TableText.c120))

C1_Witness ==
    /\ pc = "prepare_accruals_report"
    /\ \E i \in 1..Len(accruals_report) :
           /\ IsWiproChina(accruals_report[i])
           /\ accruals_report[i]["Company Code"] = Str(TableText.c120)

\* a field of a type the documented signature of its derivation step does not name
\* (a missing value is a float NaN: Status and DR Account may be missing)
HasTypeViolation(row) ==
    \/ \E c \in {"Cost Center", "Accounting Category", "Program", "APPROVAL_BUDGET_FUND",
                 "Region", "Partner Type", "APPROVAL_BUDGET_NAME", "Partner", "Activity",
                 "Claim Status"} : ~isinstance(row[c], "str")
    \/ \E c \in {"Status", "DR Account"} : ~isinstance(row[c], "str") /\ ~IsNaN(row[c])
    \/ \E c \in {"Activity Start Date", "Activity End Date"} : ~isinstance(row[c], "date")
    \/ \E c \in {"Convert to Partner Currency - Payment Amount",
                 "Approved PA in Local Currency", "Claim Approved Amount (Local)"} :
           ~isinstance(row[c], "float")

\* a field of a type that the type check of its derivation step rejects
HasRejectedType(row) ==
    \/ ~isinstance(row["Status"], "str") /\ ~isinstance(row["Status"], "float")
    \/ \E c \in {"Cost Center", "Accounting Category", "Program", "APPROVAL_BUDGET_FUND",
                 "APPROVAL_BUDGET_NAME", "Partner", "Activity", "Claim Status", "Region"} :
           ~isinstance(row[c], "str")
    \/ /\ ~isinstance(row["DR Account"], "float")
       /\ \E c \in {"DR Account", "Partner Type"} : ~isinstance(row[c], "str")
    \/ \E c \in {"Activity Start Date", "Activity End Date"} : ~isinstance(row[c], "date")
    \/ \E c \in {"Convert to Partner Currency - Payment Amount",
                 "Approved PA in Local Currency", "Claim Approved Amount (Local)"} :
           ~isinstance(row[c], "float")

BeforeSummaryRows == pc # "failed" /\ stage_of(pc) \in 2..stage_of("add_summary_rows")

HasColumn(i, column) == i \in 1..Len(accruals_report) /\ column \in DOMAIN accruals_report[i]

\* a date as the calendar has it
IsCalendarDay(n) ==
    /\ (n \div 100) % 100 \in 1..12
    /\ n % 100 \in 1..days_in_month(n \div 10000, (n \div 100) % 100)

\* End - Start in days, the calendar days counted one by one
DaysFromTo(start, end) ==
    IF start.n <= end.n
    THEN Cardinality({n \in start.n..(end.n - 1) : IsCalendarDay(n)})
    ELSE 0 - Cardinality({n \in end.n..(start.n - 1) : IsCalendarDay(n)})

\* C4: for a row whose Start and End are dates, Days to Accrue is (End - Start in
\* days) + 1, an int that is at least 1 when Start is not after End; when a row's
\* Start or End is not a date, the step fails with ImproperArgumentError.
C4_DaysToAccrue ==
    /\ [](BeforeSummaryRows =>
            \A i \in 1..Len(accruals_report) :
                HasColumn(i, "Days to Accrue") =>
                    LET row == accruals_report[i]
                        start == row["Activity Start Date"]
                        end == row["Activity End Date"]
                    IN  /\ isinstance(start, "date") /\ isinstance(end, "date")
                        /\ row["Days to Accrue"] = IntVal(DaysFromTo(start, end) + 1)
                        /\ start.n <= end.n => row["Days to Accrue"].n >= 1)
    /\ [][pc = "days_to_accrue" =>
            IF \E i \in 1..Len(accruals_report) :
                   \/ ~isinstance(accruals_report[i]["Activity Start Date"], "date")
                   \/ ~isinstance(accruals_report[i]["Activity End Date"], "date")
            THEN pc' = "failed" /\ error' = "ImproperArgumentError"
            ELSE pc' = "is_processed"]_vars

C4_Witness ==
    /\ pc = "is_processed"
    /\ accruals_report[1]["Activity Start Date"] = Date(2024, 1, 15)
    /\ accruals_report[1]["Activity End Date"] = Date(2024, 3, 10)
    /\ accruals_report[1]["Days to Accrue"] = IntVal(56)

\* C5 as stated: Processed Amount equals the payment amount if and only if the flag
\* is YES, is 0.00 otherwise, and is never negative and never null.
C5_NeverNegativeNeverNull ==
    BeforeSummaryRows =>
        \A i \in 1..Len(accruals_report) :
            HasColumn(i, "Invoice or Credit Memo Processed Amount (Local Currency)") =>
                LET row == accruals_report[i]
                    flag == row["Invoice or Credit Memo Processed in Oracle?"]
                    payment == row["Convert to Partner Currency - Payment Amount"]
                    amount == row["Invoice or Credit Memo Processed Amount (Local Currency)"]
                IN  /\ amount = payment <=> flag = Str(Lit.YES)
                    /\ flag # Str(Lit.YES) => amount = Float(0)
                    /\ IsNumber(amount) /\ amount.n >= 0

\* C5: Processed Amount is the payment amount when the flag is YES and exactly 0.00
\* when it is not; it is negative or null only when the flag is YES and the payment
\* amount itself is negative or null.
C5_ProcessedAmount ==
    BeforeSummaryRows =>
        \A i \in 1..Len(accruals_report) :
            HasColumn(i, "Invoice or Credit Memo Processed Amount (Local Currency)") =>
                LET row == accruals_report[i]
                    flag == row["Invoice or Credit Memo Processed in Oracle?"]
                    payment == row["Convert to Partner Currency - Payment Amount"]
                    amount == row["Invoice or Credit Memo Processed Amount (Local Currency)"]
                IN  /\ flag = Str(Lit.YES) => amount = payment
                    /\ flag # Str(Lit.YES) => amount = Float(0)
                    /\ IsNaN(amount) \/ amount.n < 0
                           => flag = Str(Lit.YES) /\ (IsNaN(payment) \/ payment.n < 0)

C5_Witness ==
    /\ pc = "total_pa_accrual"
    /\ accruals_report[1]["Invoice or Credit Memo Processed in Oracle?"] = Str(Lit.YES)
    /\ accruals_report[1]["Invoice or Credit Memo Processed Amount (Local Currency)"]
           = Float(0 - 2500)

\* value is product / 100 rounded to the nearest whole
IsNearestHundredth(value, product) == 2 * (IF value * 100 >= product THEN value * 100 - product ELSE product - value * 100) <= 100

\* the factor table's entry for the row's Activity and Region
HasFactor(row) ==
    /\ all_str(row, {"Activity", "Region"})
    /\ \E k \in 1..Len(pa_to_claims_factors) :
           /\ pa_to_claims_factors[k].Activity = row["Activity"]
           /\ row["Region"].s \in DOMAIN pa_to_claims_factors[k].factor

FactorOf(row) ==
    LET k == CHOOSE j \in 1..Len(pa_to_claims_factors) :
                 pa_to_claims_factors[j].Activity = row["Activity"]
    IN  pa_to_claims_factors[k].factor[row["Region"].s]

TotalPaAccrualTyped(row) ==
    /\ all_str(row, {"Activity", "Claim Status", "Region",
                     "Invoice or Credit Memo Processed in Oracle?"})
    /\ isinstance(row["Approved PA in Local Currency"], "float")

\* C7: the factor of (Activity, Region) is looked up for every row, whatever its
\* Claim Status: when the Activity of some row is not in the factor table or its
\* Region is not a column of it, the step fails with a lookup error (KeyError or
\* IndexError) and the run ends there; no default factor is used.
C7_MissingFactorAborts ==
    [][(pc = "total_pa_accrual"
           /\ (\A i \in 1..Len(accruals_report) : TotalPaAccrualTyped(accruals_report[i])))
        => (IF \E i \in 1..Len(accruals_report) : ~HasFactor(accruals_report[i])
            THEN pc' = "failed" /\ error' \in {"KeyError", "IndexError"} /\ result' = NoResult
            ELSE pc' = "total_unprocessed_accrual")]_vars

C7_Witness ==
    /\ pc = "failed"
    /\ error = "IndexError"
    /\ base_report[1]["Claim Status"] = Str(FieldText.EXPIRED)
    /\ base_report[1]["Activity"] = Str(FieldText.Webinar)

IsRoundedQuotient(rate, amount, days) ==
    LET off == rate * days - amount
        magnitude(x) == IF x >= 0 THEN x ELSE 0 - x
    IN  2 * magnitude(off) <= magnitude(days)

DailyRateRule(rate, amount, days) ==
    IF amount = Float(0) THEN rate = amount
    ELSE IF days.n = 0 THEN rate = Float(0)
    ELSE IF IsNaN(amount) THEN IsNaN(rate)
    ELSE isinstance(rate, "float") /\ ~IsNaN(rate) /\ IsRoundedQuotient(rate.n, amount.n, days.n)

\* C9: each of the two daily rates is the amount itself when the amount is 0.00 and
\* otherwise round(amount / Days to Accrue, 2); when Days to Accrue is 0 the step
\* does not raise and the rate is 0.00.
C9_DailyRates ==
    /\ [](BeforeSummaryRows =>
            \A i \in 1..Len(accruals_report) :
                /\ HasColumn(i, "PA Daily Accrual Rate") =>
                       DailyRateRule(accruals_report[i]["PA Daily Accrual Rate"],
                                     accruals_report[i]["Total PA Accrual (Local Currency)"],
                                     accruals_report[i]["Days to Accrue"])
                /\ HasColumn(i, "Unprocessed Claim Daily Accrual Rate") =>
                       DailyRateRule(accruals_report[i]["Unprocessed Claim Daily Accrual Rate"],
                                     accruals_report[i]["Total Unprocessed Claim Accrual (Local Currency)"],
                                     accruals_report[i]["Days to Accrue"]))
    /\ [][(pc \in {"pa_daily_accrual_rate", "unprocessed_daily_accrual_rate"}) => (pc' # "failed")]_vars

C9_Witness ==
    /\ pc = "China"
    /\ accruals_report[1]["Days to Accrue"] = IntVal(0)
    /\ accruals_report[1]["Total PA Accrual (Local Currency)"] = Float(85000)
    /\ accruals_report[1]["PA Daily Accrual Rate"] = Float(0)

\* row i of the table is a member of a PA group: its PA Number is shared with
\* another row, its PA Status is APPROVED or PENDINGAPPROVAL, its Program ALLIANCECOOP
IsMember(table, i) ==
    /\ \E j \in 1..Len(table) : j # i /\ table[j]["PA Number"] = table[i]["PA Number"]
    /\ table[i]["PA Status"] \in {Str(Lit.APPROVED), Str(Lit.PENDINGAPPROVAL)}
    /\ table[i]["Program"] = Str(Lit.ALLIANCECOOP)

MembersOf(table, pa_number) ==
    select_rows(table, {i \in 1..Len(table) :
                           IsMember(table, i) /\ table[i]["PA Number"] = pa_number})

\* the PA Numbers with members whose factor, of the first member, is found
QualifyingPaNumbers(table) ==
    {table[i]["PA Number"] : i \in {j \in 1..Len(table) :
                                       /\ IsMember(table, j)
                                       /\ HasFactor(MembersOf(table, table[j]["PA Number"])[1])}}

WithoutSummaryFlag(row) ==
    [c \in DOMAIN row \ {"Summary Row for Repeating PA Numbers"} |-> row[c]]

\* in the table after, the members of the group are one block in their order in the
\* table before, and the one summary row of the group is the row after the block
SummaryRowFollowsMembers(before, after, pa_number) ==
    LET members == MembersOf(before, pa_number)
        summaries == {j \in 1..Len(after) :
                         after[j]["PA Number"] = Str(pa_number.s \o Lit.dotS)}
    IN  /\ Cardinality(summaries) = 1
        /\ LET at == CHOOSE j \in summaries : TRUE
               block == (at - Len(members))..(at - 1)
           IN  /\ at > Len(members)
               /\ \A m \in 1..Len(members) :
                      WithoutSummaryFlag(after[at - Len(members) + m - 1]) = members[m]
               /\ \A j \in 1..Len(after) :
                      j \notin block /\ after[j]["PA Number"] = pa_number
                          => WithoutSummaryFlag(after[j]) \notin Range(members)

\* C10: for each PA Number shared by two or more rows, with rows of PA Status
\* APPROVED or PENDINGAPPROVAL and Program ALLIANCECOOP and with its factor found,
\* summary row synthesis emits exactly one summary row; in its output the member
\* rows of the group are contiguous, in their order in the input, and the summary
\* row is the row after the last of them.
C10_OneSummaryRowAfterMembers ==
    [][(pc = "add_summary_rows" /\ pc' = "monthly_accruals")
        => (\A pa_number \in QualifyingPaNumbers(accruals_report) :
               SummaryRowFollowsMembers(accruals_report, accruals_report', pa_number))]_vars

C10_Witness ==
    /\ pc = "monthly_accruals"
    /\ \E at \in 3..Len(accruals_report) :
           /\ accruals_report[at]["PA Number"] = Str(FieldText.P1 \o Lit.dotS)
           /\ accruals_report[at - 1]["PA Number"] = Str(FieldText.P1)
           /\ accruals_report[at - 1]["Claim Number"] = Str(FieldText.C2)
           /\ accruals_report[at - 2]["PA Number"] = Str(FieldText.P1)
           /\ accruals_report[at - 2]["Claim Number"] = Str(FieldText.C1)

\* C11: the summary row of a group carries Total PA Accrual = round(Approved PA x
\* the group's factor - the sum of the Processed Amount of the member rows flagged
\* YES, 2) and the group's factor as Reduction Factor; the summary row itself is
\* not among the rows summed.
C11_SummaryRowTotal ==
    [][LET RECURSIVE ProcessedSum(_)
           ProcessedSum(rows) ==
               IF Len(rows) = 0 THEN 0
               ELSE (IF rows[1]["Invoice or Credit Memo Processed in Oracle?"] = Str(Lit.YES)
                     THEN rows[1]["Invoice or Credit Memo Processed Amount (Local Currency)"].n
                     ELSE 0) + ProcessedSum(Tail(rows))
           SummaryRowTotal(before, after, pa_number) ==
               LET members == MembersOf(before, pa_number)
                   factor == FactorOf(members[1])
                   approved == members[1]["Approved PA in Local Currency"]
               IN  \A at \in 1..Len(after) :
                       after[at]["PA Number"] = Str(pa_number.s \o Lit.dotS) =>
                           LET total == after[at]["Total PA Accrual (Local Currency)"]
                           IN  /\ after[at]["Accrual Reduction Factor"] = factor
                               /\ isinstance(total, "float")
                               /\ ~IsNaN(total)
                               /\ IsNearestHundredth(total.n,
                                      approved.n * factor.n - 100 * ProcessedSum(members))
       IN  (pc = "add_summary_rows" /\ pc' = "monthly_accruals")
               => (\A pa_number \in QualifyingPaNumbers(accruals_report) :
                      SummaryRowTotal(accruals_report, accruals_report', pa_number))]_vars

\* Approved PA 1000.00, factor 0.50, a processed member of 100.00 and an unprocessed
\* member: 400.00
C11_Witness ==
    /\ pc = "monthly_accruals"
    /\ Len(accruals_report) = 3
    /\ accruals_report[1]["Approved PA in Local Currency"] = Float(100000)
    /\ accruals_report[1]["Invoice or Credit Memo Processed in Oracle?"] = Str(Lit.NO)
    /\ accruals_report[2]["Invoice or Credit Memo Processed in Oracle?"] = Str(Lit.YES)
    /\ accruals_report[2]["Invoice or Credit Memo Processed Amount (Local Currency)"]
           = Float(10000)
    /\ accruals_report[3]["PA Number"] = Str(FieldText.P1 \o Lit.dotS)
    /\ accruals_report[3]["Accrual Reduction Factor"] = Float(50)
    /\ accruals_report[3]["Total PA Accrual (Local Currency)"] = Float(40000)

\* C12: in every output table each row's summary flag is one of NO, YES-SUMMARY,
\* YES-CLOSED, YES-REPEATED, and every row flagged YES-SUMMARY has a Claim Number
\* that ends in ".S".
C12_SummaryFlagOnlyOnSummaryRows ==
    pc \in {"monthly_accruals", "prepare_accruals_report"} =>
        \A at \in 1..Len(accruals_report) :
            LET summary_flag == accruals_report[at]["Summary Row for Repeating PA Numbers"]
                claim_number == accruals_report[at]["Claim Number"]
            IN  /\ summary_flag \in {Str(Lit.NO), Str(Lit.YES_SUMMARY),
                                     Str(Lit.YES_CLOSED), Str(Lit.YES_REPEATED)}
                /\ summary_flag = Str(Lit.YES_SUMMARY)
                       => ends_with(claim_number.s, Lit.dotS)

\* C13: when the Activity of a candidate group is absent from the factor table (or
\* its Region is not a column of it), the run does not abort: the step that adds
\* the summary rows gives that group no summary row and keeps its member rows as
\* they were, and every other group is still summarized.
C13_MissingFactorGroupDoesNotAbort ==
    [][LET Candidates(table) ==
               {table[i]["PA Number"] : i \in {j \in 1..Len(table) : IsMember(table, j)}}
           Unmatched(table) ==
               {pa_number \in Candidates(table) : ~HasFactor(MembersOf(table, pa_number)[1])}
           Summaries(table, pa_number) ==
               {j \in 1..Len(table) : table[j]["PA Number"] = Str(pa_number.s \o Lit.dotS)}
       IN  /\ (Unmatched(base_report) # {}) => (pc' # "failed")
           /\ (pc = "add_summary_rows" /\ pc' = "monthly_accruals") =>
                  /\ \A pa_number \in Unmatched(accruals_report) :
                         /\ Summaries(accruals_report', pa_number) = {}
                         /\ \A member \in Range(MembersOf(accruals_report, pa_number)) :
                                \E j \in 1..Len(accruals_report') :
                                    WithoutSummaryFlag(accruals_report'[j]) = member
                  /\ \A pa_number \in QualifyingPaNumbers(accruals_report) :
                         Cardinality(Summaries(accruals_report', pa_number)) = 1]_vars

\* C14: for every row with Start <= End the schedule has exactly one entry for each
\* calendar month, month and year, from the start month to the end month, and the
\* amount of an entry is round(days x rate, 2) with days = End.day - Start.day + 1
\* when start and end fall in the same calendar month, the days from Start.day to
\* the month's end for the start month, End.day for the end month and the month's
\* length for every month in between.
C14_MonthlySchedule ==
    pc = "prepare_accruals_report" =>
        \A i \in 1..Len(accruals_report) :
            LET start == accruals_report[i]["Activity Start Date"]
                end == accruals_report[i]["Activity End Date"]
                amounts == monthly_accrual_amounts[i]
                start_month == <<year_of(start), month_of(start)>>
                end_month == <<year_of(end), month_of(end)>>
                Index(ym) == ym[1] * 12 + ym[2] - 1
                Months == {ym \in (year_of(start)..year_of(end)) \X (1..12) :
                              Index(start_month) <= Index(ym) /\ Index(ym) <= Index(end_month)}
                Days(ym) ==
                    IF ym = start_month /\ ym = end_month THEN day_of(end) - day_of(start) + 1
                    ELSE IF ym = start_month
                    THEN days_in_month(ym[1], ym[2]) - day_of(start) + 1
                    ELSE IF ym = end_month THEN day_of(end)
                    ELSE days_in_month(ym[1], ym[2])
                rates == {accruals_report[i]["PA Daily Accrual Rate"],
                          accruals_report[i]["Unprocessed Claim Daily Accrual Rate"]}
            IN  (isinstance(start, "date") /\ isinstance(end, "date") /\ start.n <= end.n) =>
                    /\ DOMAIN amounts = {month_key(ym[1], ym[2]) : ym \in Months}
                    /\ \E rate \in rates :
                           \/ /\ IsNumber(rate)
                              /\ \A ym \in Months :
                                     amounts[month_key(ym[1], ym[2])]
                                         = Float(Days(ym) * hundredths_of(rate))
                           \/ /\ IsNaN(rate)
                              /\ \A ym \in Months : IsNaN(amounts[month_key(ym[1], ym[2])])

\* C15: in the assembled output each quarter column of a row is the sum of the
\* month columns of that quarter and year, the grand total is the sum of all month
\* columns of the row and so of its quarter columns, and the schedule columns are
\* the months of a quarter in chronological order followed by that quarter's sum,
\* quarter after quarter, with the grand total last.
C15_QuarterSumsAndOrder ==
    (pc = "done" /\ result # NoResult) =>
        LET names == result.accrual_column_names
            QuarterNames == {"Q1", "Q2", "Q3", "Q4"}
            MonthNumber(label) == CHOOSE m \in 1..12 : MONTH_NAME_MAP[m] = label.name
            IsMonth(label) == \E m \in 1..12 : MONTH_NAME_MAP[m] = label.name
            IsQuarter(label) == label.name \in QuarterNames
            QuarterLabel(label) ==
                [name |-> <<"Q1", "Q2", "Q3", "Q4">>[((MonthNumber(label) - 1) \div 3) + 1],
                 year |-> label.year]
            Chronological(label) == label.year * 12 + MonthNumber(label)
            MonthsOf(quarter) ==
                {k \in 1..Len(names) : IsMonth(names[k]) /\ QuarterLabel(names[k]) = quarter}
            RECURSIVE Sum(_, _)
            Sum(row, positions) ==
                IF positions = {} THEN 0
                ELSE LET k == CHOOSE x \in positions : TRUE
                     IN  row[names[k]].n + Sum(row, positions \ {k})
            Months == {k \in 1..Len(names) : IsMonth(names[k])}
            Quarters == {k \in 1..Len(names) : IsQuarter(names[k])}
        IN  /\ Len(names) > 0
            /\ names[Len(names)] = TOTAL_ACCRUAL
            /\ \A k \in 1..(Len(names) - 1) : IsMonth(names[k]) \/ IsQuarter(names[k])
            /\ \A j, k \in 1..Len(names) : j # k => names[j] # names[k]
            /\ \A j, k \in Months : j < k => Chronological(names[j]) < Chronological(names[k])
            /\ \A k \in Months :
                   \E q \in Quarters :
                       /\ names[q] = QuarterLabel(names[k])
                       /\ k < q
                       /\ \A j \in (k + 1)..(q - 1) : j \in MonthsOf(names[q])
            /\ \A q \in Quarters : MonthsOf(names[q]) # {}
            /\ \A i \in 1..Len(result.table) :
                   LET row == result.table[i].accruals
                   IN  /\ DOMAIN row = Range(names)
                       /\ \A q \in Quarters : row[names[q]] = Float(Sum(row, MonthsOf(names[q])))
                       /\ row[TOTAL_ACCRUAL] = Float(Sum(row, Months))
                       /\ row[TOTAL_ACCRUAL] = Float(Sum(row, Quarters))

\* a claim of thirteen months: five quarter columns, the second quarter of 2024
\* being 41.40 + 42.78 + 41.40
C15_Witness ==
    /\ pc = "done"
    /\ result # NoResult
    /\ Len(result.accrual_column_names) = 19
    /\ Len(result.table) = 1
    /\ result.table[1].accruals[month_key(2024, 5)] = Float(4278)
    /\ result.table[1].accruals[[name |-> "Q2", year |-> 2024]] = Float(12558)

C17_OverrideFrame ==
    [][LET Field(row, column) == normalize(row[column].s)
           Matches(method, rule, row) ==
               CASE method = "China" ->
                        rule.key = <<Field(row, "Country"), Field(row, "Partner Local Currency")>>
                 [] method \in {"Wipro", "Accenture"} -> rule.key = Field(row, "Partner")
                 [] method = "Odine" ->
                        /\ rule.key[1] = Field(row, "Partner")
                        /\ contains(rule.key[2], Field(row, "APPROVAL_BUDGET_FUND"))
                 [] method = "Latam" ->
                        rule.key = <<Field(row, "Region"), Field(row, "Partner Local Currency")>>
                 [] method = "Nokia" ->
                        /\ rule.key[1] = Field(row, "Region")
                        /\ contains(Field(row, "Activity"), rule.key[2])
           Columns(method, rule) ==
               IF method = "China" THEN {"Company Code"}
               ELSE {rule.sets[k][1] : k \in 1..Len(rule.sets)}
           Listed(method, row) ==
               UNION {Columns(method, rule) :
                         rule \in {r \in Range(TRANSFORMATION_MAP[method]) : Matches(method, r, row)}}
       IN  (pc \in Range(edge_case_methods) /\ pc' # "failed" /\ pc' # pc) =>
               \A i \in 1..Len(accruals_report) :
                   /\ DOMAIN accruals_report'[i] = DOMAIN accruals_report[i]
                   /\ \A column \in DOMAIN accruals_report[i] \ Listed(pc, accruals_report[i]) :
                          accruals_report'[i][column] = accruals_report[i][column]]_vars

\* after the Latam set: the matching row has the two listed columns rewritten and
\* its key columns as they were, the row beside it matches no key and is as it was
C17_Witness ==
    /\ pc = "Nokia"
    /\ Len(accruals_report) = 2
    /\ base_report[1]["Region"] = Str(Lit.LATAM)
    /\ accruals_report[1]["Region"] = Str(TableText.ROW)
    /\ accruals_report[1]["Company Code"] = Str(TableText.c150)
    /\ accruals_report[1]["Partner Local Currency"] = Str(TableText.BRL)
    /\ accruals_report[1]["Cost Center"] = base_report[1]["Cost Center"]
    /\ base_report[2]["Region"] = Str(Lit.EMEA)
    /\ \A column \in DOMAIN base_report[2] :
           accruals_report[2][column] = base_report[2][column]

\* C18: the step that adds the summary rows partitions the derived rows into
\* candidates (PA Number on at least two rows, PA Status APPROVED or
\* PENDINGAPPROVAL, Program ALLIANCECOOP) and unique rows (every other row); every
\* unique row gets the summary flag NO and no candidate row gets NO.
C18_CandidatesAndUniqueRows ==
    [][(pc = "add_summary_rows" /\ pc' = "monthly_accruals") =>
           \A i \in 1..Len(accruals_report) :
               LET copies == {j \in 1..Len(accruals_report') :
                                 WithoutSummaryFlag(accruals_report'[j]) = accruals_report[i]}
                   Flag(j) == accruals_report'[j]["Summary Row for Repeating PA Numbers"]
               IN  IF IsMember(accruals_report, i)
                   THEN \A j \in copies : Flag(j) # Str(Lit.NO)
                   ELSE /\ copies # {}
                        /\ \A j \in copies : Flag(j) = Str(Lit.NO)]_vars

\* C19: when a column of the kept columns is absent from the report at assembly,
\* the run fails with ColumnSubsetError and returns no table.
C19_MissingColumnIsColumnSubsetError ==
    [][(/\ pc = "prepare_accruals_report"
        /\ \E i \in 1..Len(accruals_report) :
               ~(KEEP_COLUMNS_ACCRUALS_REPORT \ {"Intercompany Code", "Product Code"}
                     \subseteq DOMAIN accruals_report[i]))
        => (pc' = "failed" /\ error' = "ColumnSubsetError" /\ result' = NoResult)]_vars

\* C20: the Settlement Status of a row is the Status value when it is text and
\* "N/A" when it is missing; when the Status value of a row is neither missing nor
\* text the step fails with ImproperArgumentError and does not substitute "N/A".
C20_SettlementStatus ==
    [][(pc = "settlement_status") =>
           IF \E i \in 1..Len(accruals_report) :
                  LET status == accruals_report[i]["Status"]
                  IN  ~isinstance(status, "str") /\ ~IsNaN(status)
           THEN pc' = "failed" /\ error' = "ImproperArgumentError"
           ELSE /\ pc' # "failed"
                /\ \A i \in 1..Len(accruals_report) :
                       accruals_report'[i]["Claim Invoice or Credit Memo Settlement Status"]
                           = IF isinstance(accruals_report[i]["Status"], "str")
                             THEN accruals_report[i]["Status"]
                             ELSE Str(Lit.NA_text)]_vars

C23_RateSelection ==
    [][(pc = "monthly_accruals") =>
           LET rows == 1..Len(accruals_report)
               IsSummary(row) ==
                   row["Summary Row for Repeating PA Numbers"] = Str(Lit.YES_SUMMARY)
               Approved(row) == row["Claim Approved in Local Currency"]
               Rate(row) ==
                   IF IsSummary(row) THEN row["PA Daily Accrual Rate"]
                   ELSE IF Approved(row) = Str(Lit.NOCLAIM) \/ Approved(row).n <= 0
                   THEN row["PA Daily Accrual Rate"]
                   ELSE row["Unprocessed Claim Daily Accrual Rate"]
               Typed(row) ==
                   /\ isinstance(row["Activity Start Date"], "date")
                   /\ isinstance(row["Activity End Date"], "date")
                   /\ isinstance(row["Summary Row for Repeating PA Numbers"], "str")
                   /\ isinstance(row["PA Daily Accrual Rate"], "float")
                   /\ ~IsSummary(row) =>
                          /\ Approved(row) = Str(Lit.NOCLAIM) \/ IsNumber(Approved(row))
                          /\ isinstance(row["Unprocessed Claim Daily Accrual Rate"], "float")
               Schedule(row) ==
                   LET dates == accrual_dates(row["Activity Start Date"], row["Activity End Date"])
                   IN  [k \in 1..Len(dates) |->
                           Float(month_days_to_accrue(dates[k][1], dates[k][2],
                                                      row["Activity Start Date"],
                                                      row["Activity End Date"])
                                     * Rate(row).n)]
           IN  (\A i \in rows : Typed(accruals_report[i])) =>
                   /\ pc' = "prepare_accruals_report"
                   /\ \A i \in rows :
                          LET row == accruals_report[i]
                              dates == accrual_dates(row["Activity Start Date"],
                                                     row["Activity End Date"])
                          IN  \A k \in 1..Len(dates) :
                                  (\A h \in (k + 1)..Len(dates) :
                                       month_key(dates[h][1], dates[h][2])
                                           # month_key(dates[k][1], dates[k][2]))
                                  => monthly_accrual_amounts'[i][month_key(dates[k][1], dates[k][2])]
                                         = Schedule(row)[k]]_vars

\* a group of a claim without a claim amount, a claim with an amount and their
\* summary row: the PA rate, the unprocessed rate, and the PA rate of the summary
\* row, whose Claim Approved amount is the text MULTIPLE
C23_Witness ==
    /\ pc = "prepare_accruals_report"
    /\ Len(accruals_report) = 3
    /\ accruals_report[1]["Claim Approved in Local Currency"] = Str(Lit.NOCLAIM)
    /\ accruals_report[1]["PA Daily Accrual Rate"] = Float(893)
    /\ monthly_accrual_amounts[1][month_key(2024, 2)] = Float(29 * 893)
    /\ accruals_report[2]["Claim Approved in Local Currency"] = Float(5000)
    /\ accruals_report[2]["PA Daily Accrual Rate"] = Float(0)
    /\ accruals_report[2]["Unprocessed Claim Daily Accrual Rate"] = Float(89)
    /\ monthly_accrual_amounts[2][month_key(2024, 2)] = Float(29 * 89)
    /\ accruals_report[3]["Summary Row for Repeating PA Numbers"] = Str(Lit.YES_SUMMARY)
    /\ accruals_report[3]["Claim Approved in Local Currency"] = Str(Lit.MULTIPLE)
    /\ accruals_report[3]["Unprocessed Claim Daily Accrual Rate"] = Str(Lit.NA_text)
    /\ monthly_accrual_amounts[3][month_key(2024, 2)]
           = Float(29 * accruals_report[3]["PA Daily Accrual Rate"].n)
    /\ accruals_report[3]["PA Daily Accrual Rate"].n > 0

\* C24: at assembly every month of ACCRUAL_MONTHS that no row's schedule produced
\* is a column holding 0.00 on every row, every cell that a row's schedule does
\* not cover is 0.00, and the month columns are in strictly increasing
\* chronological order, by year and then month.
C24_MonthsFilledAndSorted ==
    (pc = "done" /\ result # NoResult) =>
        LET names == result.accrual_column_names
            IsMonth(label) == \E m \in 1..12 : MONTH_NAME_MAP[m] = label.name
            Chronological(label) ==
                label.year * 12 + (CHOOSE m \in 1..12 : MONTH_NAME_MAP[m] = label.name)
            Months == {k \in 1..Len(names) : IsMonth(names[k])}
            Covers(row, label) ==
                /\ year_of(row["Activity Start Date"]) * 12 + month_of(row["Activity Start Date"])
                       <= Chronological(label)
                /\ Chronological(label)
                       <= year_of(row["Activity End Date"]) * 12 + month_of(row["Activity End Date"])
        IN  /\ \A k \in 1..Len(ACCRUAL_MONTHS) : \E j \in Months : names[j] = ACCRUAL_MONTHS[k]
            /\ \A j, k \in Months : j < k => Chronological(names[j]) < Chronological(names[k])
            /\ \A i \in 1..Len(result.table) :
                   \A k \in Months :
                       \/ Covers(result.table[i].report, names[k])
                       \/ result.table[i].accruals[names[k]] = Float(0)

\* a claim of March and April ahead of a claim of February: January is produced by
\* no row, and the columns are January, February, March, April
C24_Witness ==
    /\ pc = "done"
    /\ result # NoResult
    /\ Len(result.table) = 2
    /\ result.table[1].report["Activity Start Date"] = Date(2024, 3, 10)
    /\ result.table[2].report["Activity Start Date"] = Date(2024, 2, 1)
    /\ result.accrual_column_names[1] = month_key(2024, 1)
    /\ result.accrual_column_names[2] = month_key(2024, 2)
    /\ result.accrual_column_names[3] = month_key(2024, 3)
    /\ result.accrual_column_names[5] = month_key(2024, 4)
    /\ result.table[1].accruals[month_key(2024, 1)] = Float(0)
    /\ result.table[2].accruals[month_key(2024, 1)] = Float(0)
    /\ result.table[2].accruals[month_key(2024, 4)] = Float(0)
    /\ result.table[1].accruals[month_key(2024, 4)] # Float(0)

\* C25: the step that adds the summary rows neither loses nor duplicates rows: the
\* table returned holds every row of the derived table exactly as often as the
\* derived table does, rows identical to another row included, plus one row per
\* summarized group, so its length is the derived table's length plus the number
\* of summary rows.
C25_NoRowLostOrDuplicated ==
    [][(pc = "add_summary_rows" /\ pc' = "monthly_accruals") =>
           LET before == accruals_report
               after == accruals_report'
               synthesized ==
                   {j \in 1..Len(after) :
                       \E pa_number \in {before[i]["PA Number"] : i \in 1..Len(before)} :
                           after[j]["PA Number"] = Str(pa_number.s \o Lit.dotS)}
           IN  /\ \A i \in 1..Len(before) :
                      Cardinality({j \in 1..Len(after) :
                                      WithoutSummaryFlag(after[j]) = before[i]})
                          = Cardinality({h \in 1..Len(before) : before[h] = before[i]})
               /\ Len(after) = Len(before) + Cardinality(synthesized)]_vars

\* C26: for every row with Start <= End, of any length, the day counts of the months
\* of its schedule are each between 1 and the length of the month and their sum is
\* the row's Days to Accrue: with a rate r > 0 each amount is between r and the
\* month's length times r, and the amounts sum to Days to Accrue x r.
C26_DayCountsSumToDaysToAccrue ==
    pc = "prepare_accruals_report" =>
        \A i \in 1..Len(accruals_report) :
            LET row == accruals_report[i]
                start == row["Activity Start Date"]
                end == row["Activity End Date"]
                amounts == monthly_accrual_amounts[i]
                approved == row["Claim Approved in Local Currency"]
                rate ==
                    IF row["Summary Row for Repeating PA Numbers"] = Str(Lit.YES_SUMMARY)
                    THEN row["PA Daily Accrual Rate"]
                    ELSE IF approved = Str(Lit.NOCLAIM) \/ approved.n <= 0
                    THEN row["PA Daily Accrual Rate"]
                    ELSE row["Unprocessed Claim Daily Accrual Rate"]
                RECURSIVE Sum(_)
                Sum(labels) ==
                    IF labels = {} THEN 0
                    ELSE LET x == CHOOSE y \in labels : TRUE
                         IN  amounts[x].n + Sum(labels \ {x})
                Length(label) ==
                    days_in_month(label.year,
                                  CHOOSE m \in 1..12 : MONTH_NAME_MAP[m] = label.name)
            IN  (/\ isinstance(start, "date") /\ isinstance(end, "date") /\ start.n <= end.n
                 /\ isinstance(rate, "float") /\ ~IsNaN(rate) /\ rate.n > 0) =>
                    /\ \A label \in DOMAIN amounts :
                           /\ rate.n <= amounts[label].n
                           /\ amounts[label].n <= Length(label) * rate.n
                    /\ Sum(DOMAIN amounts) = row["Days to Accrue"].n * rate.n

\* C27: every summary row summarizes at least two member rows: no summary row is
\* added for a PA Number of which one row only has PA Status APPROVED or
\* PENDINGAPPROVAL and Program ALLIANCECOOP, also when the PA Number occurs on
\* other rows.
C27_SummaryOfTwoOrMore ==
    [][(pc = "add_summary_rows" /\ pc' = "monthly_accruals") =>
           \A pa_number \in {accruals_report[i]["PA Number"] : i \in 1..Len(accruals_report)} :
               (\E j \in 1..Len(accruals_report') :
                    accruals_report'[j]["PA Number"] = Str(pa_number.s \o Lit.dotS))
               => Cardinality({i \in 1..Len(accruals_report) :
                                  /\ accruals_report[i]["PA Number"] = pa_number
                                  /\ accruals_report[i]["PA Status"]
                                         \in {Str(Lit.APPROVED), Str(Lit.PENDINGAPPROVAL)}
                                  /\ accruals_report[i]["Program"] = Str(Lit.ALLIANCECOOP)})
                      >= 2]_vars

\* C28: in the assembled output the schedule cells of row i were computed from the
\* dates, rates and summary flag of report row i: the report and the schedule
\* table have the same number of rows, in the same order, when they are joined by
\* position.
C28_ScheduleOfTheSameRow ==
    [][(pc = "prepare_accruals_report" /\ pc' = "done") =>
           /\ Len(result'.table) = Len(accruals_report)
           /\ \A i \in 1..Len(accruals_report) :
                  LET row == accruals_report[i]
                      out == result'.table[i]
                      approved == row["Claim Approved in Local Currency"]
                      rate ==
                          IF row["Summary Row for Repeating PA Numbers"] = Str(Lit.YES_SUMMARY)
                          THEN row["PA Daily Accrual Rate"]
                          ELSE IF approved = Str(Lit.NOCLAIM) \/ approved.n <= 0
                          THEN row["PA Daily Accrual Rate"]
                          ELSE row["Unprocessed Claim Daily Accrual Rate"]
                      dates == accrual_dates(row["Activity Start Date"], row["Activity End Date"])
                      produced == {month_key(dates[k][1], dates[k][2]) : k \in 1..Len(dates)}
                  IN  /\ \A c \in {"PA Number", "Claim Number", "Activity Start Date",
                                   "Activity End Date", "PA Daily Accrual Rate",
                                   "Unprocessed Claim Daily Accrual Rate",
                                   "Summary Row for Repeating PA Numbers"} :
                             out.report[c] = row[c]
                      /\ \A label \in Range(result'.accrual_column_names) :
                             (\E m \in 1..12 : MONTH_NAME_MAP[m] = label.name) =>
                                 IF label \in produced
                                 THEN \E k \in 1..Len(dates) :
                                          /\ month_key(dates[k][1], dates[k][2]) = label
                                          /\ out.accruals[label] =
                                                 Float(month_days_to_accrue(
                                                           dates[k][1], dates[k][2],
                                                           row["Activity Start Date"],
                                                           row["Activity End Date"])
                                                       * rate.n)
                                 ELSE out.accruals[label] = Float(0)]_vars

\* a claim of one day of February beside a claim of January to March
C28_Witness ==
    /\ pc = "done"
    /\ result # NoResult
    /\ Len(result.table) = 2
    /\ result.table[1].report["Activity Start Date"] = Date(2024, 2, 1)
    /\ result.table[1].report["Activity End Date"] = Date(2024, 2, 1)
    /\ result.table[1].accruals[month_key(2024, 1)] = Float(0)
    /\ result.table[1].accruals[month_key(2024, 2)] # Float(0)
    /\ result.table[2].report["Activity Start Date"] = Date(2024, 1, 15)
    /\ result.table[2].accruals[month_key(2024, 1)] # Float(0)
    /\ result.table[2].accruals[month_key(2024, 2)]
           # result.table[1].accruals[month_key(2024, 2)]

\* C29: in any output no row carries the summary flag YES-CLOSED: every row flagged
\* YES-REPEATED or YES-CLOSED has PA Status APPROVED or PENDINGAPPROVAL, so a row
\* with PA Status CLOSED is always flagged NO, also when it shares its PA Number
\* with a summarized group.
C29_NoRowFlaggedYesClosed ==
    LET flags_of_open_agreements(table) ==
            \A at \in 1..Len(table) :
                LET summary_flag == table[at]["Summary Row for Repeating PA Numbers"]
                    pa_status == table[at]["PA Status"]
                IN  /\ summary_flag # Str(Lit.YES_CLOSED)
                    /\ summary_flag \in {Str(Lit.YES_REPEATED), Str(Lit.YES_CLOSED)}
                           => pa_status \in {Str(Lit.APPROVED), Str(Lit.PENDINGAPPROVAL)}
                    /\ pa_status = Str(Lit.CLOSED) => summary_flag = Str(Lit.NO)
    IN  /\ pc \in {"monthly_accruals", "prepare_accruals_report"}
               => flags_of_open_agreements(accruals_report)
        /\ (pc = "done" /\ result # NoResult)
               => flags_of_open_agreements([at \in 1..Len(result.table) |-> result.table[at].report])

\* a CLOSED claim, flagged NO, whose PA Number is that of a summarized group
C29_Witness ==
    /\ pc = "done"
    /\ result # NoResult
    /\ \E closed, member, summary \in 1..Len(result.table) :
           /\ result.table[closed].report["PA Status"] = Str(Lit.CLOSED)
           /\ result.table[closed].report["Summary Row for Repeating PA Numbers"] = Str(Lit.NO)
           /\ result.table[member].report["PA Number"] = result.table[closed].report["PA Number"]
           /\ result.table[member].report["Summary Row for Repeating PA Numbers"]
                  = Str(Lit.YES_REPEATED)
           /\ result.table[summary].report["Summary Row for Repeating PA Numbers"]
                  = Str(Lit.YES_SUMMARY)
           /\ result.table[summary].report["PA Number"].s
                  = result.table[closed].report["PA Number"].s \o Lit.dotS

\* C30: a run of build_accruals_report, whether it completes or fails, leaves the
\* builder's stored base report unchanged (same rows, columns and values as before
\* the call): the derived columns, the overrides and the summary rows are written
\* to a copy.
C30_BaseReportUnchanged == [][base_report' = base_report]_vars

\* a completed run whose output has a summary row and a derived column, beside a
\* stored report that has neither
C30_Witness ==
    /\ pc = "done"
    /\ result # NoResult
    /\ Len(result.table) > Len(base_report)
    /\ \A i \in 1..Len(base_report) :
           /\ "Days to Accrue" \notin DOMAIN base_report[i]
           /\ "Summary Row for Repeating PA Numbers" \notin DOMAIN base_report[i]
           /\ ~contains(Lit.dotS, base_report[i]["PA Number"].s)
    /\ \E i \in 1..Len(result.table) :
           /\ contains(Lit.dotS, result.table[i].report["PA Number"].s)
           /\ isinstance(result.table[i].report["Days to Accrue"], "int")

====
